---- MODULE Spec2Model ----
(***************************************************************************)
(* SchoolCity: the tile grid, the municipality / area / unit registry, the *)
(* school registry and the paint-mode state machine of the Phaser scene.   *)
(*                                                                         *)
(* Ids are strings in the program.  A municipality id "municipality-N" is  *)
(* the tuple <<N>>, an area id "municipality-N-area-I" is <<N, I>>, a unit *)
(* id "municipality-N-area-I-unit-J" is <<N, I, J>>; the empty string and  *)
(* null (both falsy in the program) are <<>>.  A school id "school_N" is   *)
(* the number N.  A grid cell is <<x, y>>.                                 *)
(***************************************************************************)
EXTENDS Integers, Sequences, FiniteSets, TLC

VARIABLES
    grid,                   \* GridService.grid: cell -> tile
    municipalities,         \* MunicipalityManagerService.municipalities
    counter,                \* MunicipalityManagerService.counter
    schools,                \* SchoolService.schools (insertion-ordered Map)
    schoolCounter,          \* SchoolService.schoolCounter
    paintMode,              \* scene.paintMode
    currentMunicipalityId,  \* scene.currentMunicipalityId
    currentAreaId,          \* scene.currentAreaId
    currentUnitId,          \* scene.currentUnitId
    isSelecting,            \* scene.isSelecting
    zoom,                   \* RenderingService.zoom, in twentieths (20 is 1.0)
    cameraOffsetX,          \* RenderingService.cameraOffsetX, in fifths of a pixel
    cameraOffsetY,          \* RenderingService.cameraOffsetY, in fifths of a pixel
    canvasWidth,            \* RenderingService.canvasWidth, in pixels
    canvasHeight,           \* RenderingService.canvasHeight, in pixels
    gridSize,               \* RenderingService.gridSize
    mapOffsetX,             \* RenderingService.config.mapOffsetX, in fifths of a pixel
    mapOffsetY,             \* RenderingService.config.mapOffsetY, in fifths of a pixel
    gestures,               \* history: how many camera operations have run
    storage,                \* localStorage item 'schoolCity-gameData': <<data>>, or <<>> when absent
    stroke,                 \* history: what the stroke in progress (a pointer down and the moves after it) has done
    last                    \* history: the last operation, its argument and result

registryVars == <<municipalities, counter>>
schoolVars == <<schools, schoolCounter>>
sceneVars == <<paintMode, currentMunicipalityId, currentAreaId, currentUnitId, isSelecting>>
viewVars == <<zoom, cameraOffsetX, cameraOffsetY, canvasWidth, canvasHeight, gridSize,
              mapOffsetX, mapOffsetY, gestures>>
vars == <<grid, municipalities, counter, schools, schoolCounter, paintMode,
          currentMunicipalityId, currentAreaId, currentUnitId, isSelecting,
          zoom, cameraOffsetX, cameraOffsetY, canvasWidth, canvasHeight, gridSize,
          mapOffsetX, mapOffsetY, gestures, storage, stroke, last>>

----------------------------------------------------------------------------
(* Program constants *)

GRID_SIZE == 10

MIN_CAPACITY == 10

MAX_CAPACITY == 1000

\* variant: the ELEMENTARY footprint is a single tile
SCHOOL_TYPES_SingleTile ==
    [ELEMENTARY |-> [size |-> [width |-> 1, height |-> 1], capacity |-> 150],
     MIDDLE     |-> [size |-> [width |-> 3, height |-> 3], capacity |-> 300],
     HIGH       |-> [size |-> [width |-> 4, height |-> 3], capacity |-> 600]]

SCHOOL_TYPES ==
    [ELEMENTARY |-> [size |-> [width |-> 2, height |-> 2], capacity |-> 150],
     MIDDLE     |-> [size |-> [width |-> 3, height |-> 3], capacity |-> 300],
     HIGH       |-> [size |-> [width |-> 4, height |-> 3], capacity |-> 600]]

(* Bounds of the exploration *)

MaxMunicipalities == 2

MaxAreas == 2

MaxUnits == 2

MaxSchools == 2

NoId == <<>>

Cells == (0 .. GRID_SIZE - 1) \X (0 .. GRID_SIZE - 1)

\* the cells pointer events are delivered to: two neighbours and one cell off the grid
PointerCells == {<<5, 5>>, <<6, 5>>, <<10, 5>>}

PaintModes == {"municipality", "area", "unit", "school", "clear"}

----------------------------------------------------------------------------
(* Generic helpers *)

Min(a, b) == IF a < b THEN a ELSE b

Max(a, b) == IF a > b THEN a ELSE b

Abs(a) == IF a < 0 THEN -a ELSE a

\* Array.prototype.findIndex, 1-based; 0 when nothing matches
FindIndex(seq, Test(_)) ==
    IF \E i \in 1 .. Len(seq) : Test(seq[i])
    THEN CHOOSE i \in 1 .. Len(seq) :
            Test(seq[i]) /\ \A j \in 1 .. (i - 1) : ~Test(seq[j])
    ELSE 0

\* Array.prototype.splice(index, 1)
Splice(seq, index) ==
    SubSeq(seq, 1, index - 1) \o SubSeq(seq, index + 1, Len(seq))

----------------------------------------------------------------------------
(* GridService *)

EmptyTile == [hasSchool |-> FALSE, municipalityId |-> NoId, areaId |-> NoId, unitId |-> NoId]

initializeGrid == [c \in Cells |-> EmptyTile]

isValidPosition(x, y) == x >= 0 /\ y >= 0 /\ x < GRID_SIZE /\ y < GRID_SIZE

\* getTile returns null off the grid; callers test isValidPosition first
getTile(g, x, y) == g[<<x, y>>]

\* getTile as a caller without a bounds check sees it: <<tile>>, or <<>> for null
getTileOrNull(g, x, y) == IF isValidPosition(x, y) THEN <<g[<<x, y>>]>> ELSE <<>>

hasSchool(g, x, y) == IF isValidPosition(x, y) THEN g[<<x, y>>].hasSchool ELSE FALSE

setTileSchool(g, x, y, flag) ==
    IF isValidPosition(x, y) THEN [g EXCEPT ![<<x, y>>].hasSchool = flag] ELSE g

gridPlaceSchool(g, x, y) ==
    IF isValidPosition(x, y) /\ ~hasSchool(g, x, y) THEN setTileSchool(g, x, y, TRUE) ELSE g

gridRemoveSchool(g, x, y) ==
    IF isValidPosition(x, y) /\ hasSchool(g, x, y) THEN setTileSchool(g, x, y, FALSE) ELSE g

\* the members a GridService object has; it declares neither width nor height
GridServiceMembers == {"grid", "gridSize"}

\* for (let i = 0; i < obj.member; i++): an undefined bound makes 0 < undefined false
LoopRange(member, value) ==
    IF member \in GridServiceMembers THEN 0 .. (value - 1) ELSE {}

----------------------------------------------------------------------------
(* MunicipalityManagerService *)

AllMunicipalities(ms) == {ms[i] : i \in 1 .. Len(ms)}

AllAreas(ms) == UNION {{m.areas[j] : j \in 1 .. Len(m.areas)} : m \in AllMunicipalities(ms)}

AllUnits(ms) == UNION {{a.units[k] : k \in 1 .. Len(a.units)} : a \in AllAreas(ms)}

\* variant: the counter is not advanced
addMunicipality_KeepsCounter(ms, c) ==
    [municipalities |-> Append(ms, [id |-> <<c>>, areas |-> <<>>]),
     counter |-> c]

\* addMunicipality: push {id: municipality-<counter>, areas: []}, counter++
addMunicipality(ms, c) ==
    [municipalities |-> Append(ms, [id |-> <<c>>, areas |-> <<>>]),
     counter |-> c + 1]

\* addArea: null (FALSE) when the municipality is not registered
addAreaFound(ms, municipalityId) ==
    FindIndex(ms, LAMBDA m : m.id = municipalityId)

addAreaNew(ms, municipalityId) ==
    LET mi == addAreaFound(ms, municipalityId)
        areaIndex == Len(ms[mi].areas) + 1
    IN  [id |-> Append(municipalityId, areaIndex),
         municipalityId |-> municipalityId,
         units |-> <<>>]

addArea(ms, municipalityId) ==
    LET mi == addAreaFound(ms, municipalityId)
    IN  [ms EXCEPT ![mi].areas = Append(@, addAreaNew(ms, municipalityId))]

\* getAreaById: the first area with that id, as <<area>>; <<>> for undefined
getAreaById(ms, areaId) ==
    LET mi == FindIndex(ms, LAMBDA m : FindIndex(m.areas, LAMBDA a : a.id = areaId) # 0)
    IN  IF mi = 0 THEN <<>>
        ELSE <<ms[mi].areas[FindIndex(ms[mi].areas, LAMBDA a : a.id = areaId)]>>

\* getUnitById: the first unit with that id, as <<unit>>; <<>> for undefined
getUnitById(ms, unitId) ==
    LET HasUnit(a) == FindIndex(a.units, LAMBDA u : u.id = unitId) # 0
        mi == FindIndex(ms, LAMBDA m : FindIndex(m.areas, HasUnit) # 0)
    IN  IF mi = 0 THEN <<>>
        ELSE LET a == ms[mi].areas[FindIndex(ms[mi].areas, HasUnit)]
             IN  <<a.units[FindIndex(a.units, LAMBDA u : u.id = unitId)]>>

\* addUnit: possible only when the municipality and, inside it, the area are found
addUnitFound(ms, municipalityId, areaId) ==
    LET mi == FindIndex(ms, LAMBDA m : m.id = municipalityId)
    IN  mi # 0 /\ FindIndex(ms[mi].areas, LAMBDA a : a.id = areaId) # 0

addUnitNew(ms, municipalityId, areaId) ==
    LET mi == FindIndex(ms, LAMBDA m : m.id = municipalityId)
        ai == FindIndex(ms[mi].areas, LAMBDA a : a.id = areaId)
        unitIndex == Len(ms[mi].areas[ai].units) + 1
    IN  [id |-> Append(areaId, unitIndex), areaId |-> areaId, municipalityId |-> municipalityId]

addUnit(ms, municipalityId, areaId) ==
    LET mi == FindIndex(ms, LAMBDA m : m.id = municipalityId)
        ai == FindIndex(ms[mi].areas, LAMBDA a : a.id = areaId)
    IN  [ms EXCEPT ![mi].areas[ai].units = Append(@, addUnitNew(ms, municipalityId, areaId))]

removeMunicipality(ms, municipalityId) ==
    LET index == FindIndex(ms, LAMBDA m : m.id = municipalityId)
    IN  IF index # 0 THEN Splice(ms, index) ELSE ms

removeArea(ms, areaId) ==
    LET mi == FindIndex(ms, LAMBDA m : FindIndex(m.areas, LAMBDA a : a.id = areaId) # 0)
    IN  IF mi = 0 THEN ms
        ELSE [ms EXCEPT ![mi].areas =
                Splice(@, FindIndex(ms[mi].areas, LAMBDA a : a.id = areaId))]

removeUnit(ms, unitId) ==
    LET HasUnit(a) == FindIndex(a.units, LAMBDA u : u.id = unitId) # 0
        mi == FindIndex(ms, LAMBDA m : FindIndex(m.areas, HasUnit) # 0)
    IN  IF mi = 0 THEN ms
        ELSE LET ai == FindIndex(ms[mi].areas, HasUnit)
             IN  [ms EXCEPT ![mi].areas[ai].units =
                    Splice(@, FindIndex(ms[mi].areas[ai].units, LAMBDA u : u.id = unitId))]

\* variant: the counter goes on from where it was
clearAll_KeepsCounter == [municipalities |-> <<>>, counter |-> counter]

\* clearAll
clearAll == [municipalities |-> <<>>, counter |-> 1]

----------------------------------------------------------------------------
(* SchoolService *)

\* the cells of a footprint of the given size with top-left corner <<x, y>>
Footprint(x, y, size) ==
    {<<x + dx, y + dy>> : <<dx, dy>> \in (0 .. size.width - 1) \X (0 .. size.height - 1)}

canPlaceSchool(g, x, y, size) ==
    \A c \in Footprint(x, y, size) :
        /\ isValidPosition(c[1], c[2])
        /\ ~hasSchool(g, c[1], c[2])
        /\ getTile(g, c[1], c[2]).unitId # NoId

\* variant: any unit will do, as in canPlaceSchool
canPlaceSchoolInSameUnit_AnyUnit(g, x, y, size, requiredUnitId) ==
    \A c \in Footprint(x, y, size) :
        /\ isValidPosition(c[1], c[2])
        /\ ~hasSchool(g, c[1], c[2])
        /\ getTile(g, c[1], c[2]).unitId # NoId

canPlaceSchoolInSameUnit(g, x, y, size, requiredUnitId) ==
    \A c \in Footprint(x, y, size) :
        /\ isValidPosition(c[1], c[2])
        /\ ~hasSchool(g, c[1], c[2])
        /\ ~(getTile(g, c[1], c[2]).unitId # requiredUnitId \/ getTile(g, c[1], c[2]).unitId = NoId)

\* mark the footprint: gridService.placeSchool on each of its cells
MarkFootprint(g, cells) ==
    [c \in Cells |-> IF c \in cells /\ ~g[c].hasSchool THEN [g[c] EXCEPT !.hasSchool = TRUE] ELSE g[c]]

\* unmark the footprint: gridService.removeSchool on each of its cells
UnmarkFootprint(g, cells) ==
    [c \in Cells |-> IF c \in cells /\ g[c].hasSchool THEN [g[c] EXCEPT !.hasSchool = FALSE] ELSE g[c]]

\* placeSchool(x, y, type): the grid, registry, counter and returned id (0 for null)
placeSchool(g, ss, sc, x, y, type) ==
    IF ~canPlaceSchool(g, x, y, SCHOOL_TYPES[type].size)
    THEN [grid |-> g, schools |-> ss, schoolCounter |-> sc, ret |-> 0]
    ELSE [grid |-> MarkFootprint(g, Footprint(x, y, SCHOOL_TYPES[type].size)),
          schools |-> Append(ss, [id |-> sc + 1,
                                  position |-> <<x, y>>,
                                  size |-> SCHOOL_TYPES[type].size,
                                  type |-> type,
                                  capacity |-> SCHOOL_TYPES[type].capacity,
                                  currentStudents |-> 0]),
          schoolCounter |-> sc + 1,
          ret |-> sc + 1]

\* the k-th top-left corner tried by the nested loops (dx outer, dy inner): the
\* clicked cell sits at offset <<dx, dy>> of the footprint
\* variant: the offsets are added to the clicked cell
cornerAt_Forward(k, clickX, clickY, size) ==
    <<clickX + ((k - 1) \div size.height), clickY + ((k - 1) % size.height)>>

cornerAt(k, clickX, clickY, size) ==
    <<clickX - ((k - 1) \div size.height), clickY - ((k - 1) % size.height)>>

\* possiblePositions: the top-left corners that pass the check, in loop order
possiblePositions(g, clickX, clickY, size, requiredUnitId) ==
    SelectSeq([k \in 1 .. (size.width * size.height) |-> cornerAt(k, clickX, clickY, size)],
              LAMBDA p : canPlaceSchoolInSameUnit(g, p[1], p[2], size, requiredUnitId))

\* twice the distance of the clicked cell to the centre ((w-1)/2, (h-1)/2) of a placement
distanceToCenter2(clickX, clickY, pos, size) ==
    Abs(2 * (clickX - pos[1]) - (size.width - 1)) + Abs(2 * (clickY - pos[2]) - (size.height - 1))

\* bestScore = Infinity: above every distance
Infinity == 1000000

\* the selection loop: a later position replaces the best one only when strictly closer
\* variant: a later position replaces the best one when it is as close
RECURSIVE bestLoop_LastWins(_, _, _, _, _, _, _)
bestLoop_LastWins(positions, i, bestPosition, bestScore, clickX, clickY, size) ==
    IF i > Len(positions) THEN bestPosition
    ELSE LET d == distanceToCenter2(clickX, clickY, positions[i], size)
         IN  IF d <= bestScore
             THEN bestLoop_LastWins(positions, i + 1, positions[i], d, clickX, clickY, size)
             ELSE bestLoop_LastWins(positions, i + 1, bestPosition, bestScore, clickX, clickY, size)

RECURSIVE bestLoop(_, _, _, _, _, _, _)
bestLoop(positions, i, bestPosition, bestScore, clickX, clickY, size) ==
    IF i > Len(positions) THEN bestPosition
    ELSE LET d == distanceToCenter2(clickX, clickY, positions[i], size)
         IN  IF d < bestScore
             THEN bestLoop(positions, i + 1, positions[i], d, clickX, clickY, size)
             ELSE bestLoop(positions, i + 1, bestPosition, bestScore, clickX, clickY, size)

\* findBestSchoolPosition: <<corner>>, or <<>> for null
findBestSchoolPosition(g, clickX, clickY, size) ==
    IF ~isValidPosition(clickX, clickY) \/ getTile(g, clickX, clickY).unitId = NoId THEN <<>>
    ELSE LET pp == possiblePositions(g, clickX, clickY, size, getTile(g, clickX, clickY).unitId)
         IN  IF Len(pp) = 0 THEN <<>>
             ELSE <<bestLoop(pp, 1, pp[1], Infinity, clickX, clickY, size)>>

\* the order in which placeSchoolAuto tries the types
\* variant: the smallest type is tried first
AutoTypes_SmallestFirst == <<"ELEMENTARY", "MIDDLE", "HIGH">>

AutoTypes == <<"HIGH", "MIDDLE", "ELEMENTARY">>

RECURSIVE placeSchoolAutoFrom(_, _, _, _, _, _)
placeSchoolAutoFrom(i, g, ss, sc, x, y) ==
    IF i > Len(AutoTypes) THEN [grid |-> g, schools |-> ss, schoolCounter |-> sc, ret |-> 0]
    ELSE LET best == findBestSchoolPosition(g, x, y, SCHOOL_TYPES[AutoTypes[i]].size)
         IN  IF best # <<>>
             THEN placeSchool(g, ss, sc, best[1][1], best[1][2], AutoTypes[i])
             ELSE placeSchoolAutoFrom(i + 1, g, ss, sc, x, y)

\* variant: when the search finds nothing an ELEMENTARY school is placed at the clicked cell
placeSchoolAuto_Fallback(g, ss, sc, x, y) ==
    IF placeSchoolAutoFrom(1, g, ss, sc, x, y).ret # 0
    THEN placeSchoolAutoFrom(1, g, ss, sc, x, y)
    ELSE placeSchool(g, ss, sc, x, y, "ELEMENTARY")

placeSchoolAuto(g, ss, sc, x, y) == placeSchoolAutoFrom(1, g, ss, sc, x, y)

\* getSchoolAtPosition: index of the first school (insertion order) covering the cell; 0 for null
getSchoolAtPosition(ss, x, y) ==
    FindIndex(ss, LAMBDA s :
        /\ x >= s.position[1] /\ x < s.position[1] + s.size.width
        /\ y >= s.position[2] /\ y < s.position[2] + s.size.height)

\* variant: only the clicked tile is unmarked
removeSchool_ClickedTileOnly(g, ss, x, y) ==
    LET i == getSchoolAtPosition(ss, x, y)
    IN  IF i # 0
        THEN [grid |-> UnmarkFootprint(g, {<<x, y>>}), schools |-> Splice(ss, i), ret |-> TRUE]
        ELSE [grid |-> g, schools |-> ss, ret |-> FALSE]

removeSchool(g, ss, x, y) ==
    LET i == getSchoolAtPosition(ss, x, y)
    IN  IF i # 0
        THEN [grid |-> UnmarkFootprint(g, Footprint(ss[i].position[1], ss[i].position[2], ss[i].size)),
              schools |-> Splice(ss, i), ret |-> TRUE]
        ELSE [grid |-> g, schools |-> ss, ret |-> FALSE]

\* resetSchools: schools.clear(), schoolCounter = 0, gridService.resetGrid()
resetSchools == [grid |-> initializeGrid, schools |-> <<>>, schoolCounter |-> 0]

----------------------------------------------------------------------------
(* The scene (MainSceneFactory): paint modes *)

\* the program state an operation of the scene reads and writes
State ==
    [grid |-> grid, municipalities |-> municipalities, counter |-> counter,
     schools |-> schools, schoolCounter |-> schoolCounter,
     currentMunicipalityId |-> currentMunicipalityId,
     currentAreaId |-> currentAreaId, currentUnitId |-> currentUnitId, ret |-> 0]

\* variant: a tile that already has a municipality is painted too
paintMunicipality_Overwrites(s, c) ==
    LET created == IF s.currentMunicipalityId = NoId
                   THEN addMunicipality(s.municipalities, s.counter)
                   ELSE [municipalities |-> s.municipalities, counter |-> s.counter]
        active == IF s.currentMunicipalityId = NoId
                  THEN created.municipalities[Len(created.municipalities)].id
                  ELSE s.currentMunicipalityId
    IN  [s EXCEPT !.municipalities = created.municipalities,
                  !.counter = created.counter,
                  !.currentMunicipalityId = active,
                  !.grid[c] = [@ EXCEPT !.municipalityId = active,
                                        !.areaId = NoId, !.unitId = NoId]]

paintMunicipality(s, c) ==
    IF s.grid[c].municipalityId = NoId
    THEN LET created == IF s.currentMunicipalityId = NoId
                        THEN addMunicipality(s.municipalities, s.counter)
                        ELSE [municipalities |-> s.municipalities, counter |-> s.counter]
             active == IF s.currentMunicipalityId = NoId
                       THEN created.municipalities[Len(created.municipalities)].id
                       ELSE s.currentMunicipalityId
         IN  [s EXCEPT !.municipalities = created.municipalities,
                       !.counter = created.counter,
                       !.currentMunicipalityId = active,
                       !.grid[c] = [@ EXCEPT !.municipalityId = active,
                                             !.areaId = NoId, !.unitId = NoId]]
    ELSE s

\* variant: a tile that already lies in a unit is painted too
paintArea_IgnoresUnit(s, c) ==
    LET tile == s.grid[c]
    IN  IF tile.municipalityId # NoId
        THEN LET create == s.currentAreaId = NoId /\ addAreaFound(s.municipalities, tile.municipalityId) # 0
                 ms == IF create THEN addArea(s.municipalities, tile.municipalityId)
                       ELSE s.municipalities
                 active == IF create THEN addAreaNew(s.municipalities, tile.municipalityId).id
                           ELSE s.currentAreaId
                 area == getAreaById(ms, active)
             IN  IF active # NoId /\ area # <<>> /\ area[1].municipalityId = tile.municipalityId
                 THEN [s EXCEPT !.municipalities = ms, !.currentAreaId = active,
                                !.grid[c] = [@ EXCEPT !.areaId = active, !.unitId = NoId]]
                 ELSE [s EXCEPT !.municipalities = ms, !.currentAreaId = active]
        ELSE s

\* variant: a new area is created for every applicable tile
paintArea_NewPerTile(s, c) ==
    LET tile == s.grid[c]
    IN  IF tile.municipalityId # NoId /\ tile.unitId = NoId
        THEN LET create == addAreaFound(s.municipalities, tile.municipalityId) # 0
                 ms == IF create THEN addArea(s.municipalities, tile.municipalityId)
                       ELSE s.municipalities
                 active == IF create THEN addAreaNew(s.municipalities, tile.municipalityId).id
                           ELSE s.currentAreaId
                 area == getAreaById(ms, active)
             IN  IF active # NoId /\ area # <<>> /\ area[1].municipalityId = tile.municipalityId
                 THEN [s EXCEPT !.municipalities = ms, !.currentAreaId = active,
                                !.grid[c] = [@ EXCEPT !.areaId = active, !.unitId = NoId]]
                 ELSE [s EXCEPT !.municipalities = ms, !.currentAreaId = active]
        ELSE s

paintArea(s, c) ==
    LET tile == s.grid[c]
    IN  IF tile.municipalityId # NoId /\ tile.unitId = NoId
        THEN LET create == s.currentAreaId = NoId /\ addAreaFound(s.municipalities, tile.municipalityId) # 0
                 ms == IF create THEN addArea(s.municipalities, tile.municipalityId)
                       ELSE s.municipalities
                 active == IF create THEN addAreaNew(s.municipalities, tile.municipalityId).id
                           ELSE s.currentAreaId
                 area == getAreaById(ms, active)
             IN  IF active # NoId /\ area # <<>> /\ area[1].municipalityId = tile.municipalityId
                 THEN [s EXCEPT !.municipalities = ms, !.currentAreaId = active,
                                !.grid[c] = [@ EXCEPT !.areaId = active, !.unitId = NoId]]
                 ELSE [s EXCEPT !.municipalities = ms, !.currentAreaId = active]
        ELSE s

paintUnit(s, c) ==
    LET tile == s.grid[c]
    IN  IF tile.areaId # NoId /\ tile.unitId = NoId
        THEN LET area == getAreaById(s.municipalities, tile.areaId)
                 create == /\ s.currentUnitId = NoId
                           /\ area # <<>>
                           /\ addUnitFound(s.municipalities, area[1].municipalityId, tile.areaId)
                 ms == IF create THEN addUnit(s.municipalities, area[1].municipalityId, tile.areaId)
                       ELSE s.municipalities
                 active == IF create
                           THEN addUnitNew(s.municipalities, area[1].municipalityId, tile.areaId).id
                           ELSE s.currentUnitId
                 unit == getUnitById(ms, active)
             IN  IF active # NoId /\ unit # <<>> /\ unit[1].areaId = tile.areaId
                 THEN [s EXCEPT !.municipalities = ms, !.currentUnitId = active,
                                !.grid[c].unitId = active]
                 ELSE [s EXCEPT !.municipalities = ms, !.currentUnitId = active]
        ELSE s

paintSchool(s, c) ==
    IF s.grid[c].unitId # NoId /\ ~s.grid[c].hasSchool
    THEN LET r == placeSchoolAuto(s.grid, s.schools, s.schoolCounter, c[1], c[2])
         IN  [s EXCEPT !.grid = r.grid, !.schools = r.schools,
                       !.schoolCounter = r.schoolCounter, !.ret = r.ret]
    ELSE s

\* is the id still on some tile, as the scan over gridService.width x gridService.height finds it
stillUsed(g, field, id) ==
    \E x \in LoopRange("width", GRID_SIZE), y \in LoopRange("height", GRID_SIZE) :
        getTile(g, x, y)[field] = id

cleanupOrphanedStructures(g, ms, municipalityId, areaId, unitId) ==
    LET ms1 == IF municipalityId # NoId /\ ~stillUsed(g, "municipalityId", municipalityId)
               THEN removeMunicipality(ms, municipalityId) ELSE ms
        ms2 == IF areaId # NoId /\ ~stillUsed(g, "areaId", areaId)
               THEN removeArea(ms1, areaId) ELSE ms1
    IN  IF unitId # NoId /\ ~stillUsed(g, "unitId", unitId)
        THEN removeUnit(ms2, unitId) ELSE ms2

\* variant: the school stays registered, only the tile is reset
clearTile_KeepsSchool(s, c) ==
    LET tile == s.grid[c]
        g == [s.grid EXCEPT ![c] = EmptyTile]
    IN  [s EXCEPT !.grid = g,
                  !.municipalities = cleanupOrphanedStructures(g, s.municipalities,
                                        tile.municipalityId, tile.areaId, tile.unitId)]

\* variant: a tile under a school only loses the school, the boundaries go with the next erase
clearTile_SchoolFirst(s, c) ==
    LET tile == s.grid[c]
        r == removeSchool(s.grid, s.schools, c[1], c[2])
        g == [s.grid EXCEPT ![c] = EmptyTile]
    IN  IF tile.hasSchool
        THEN [s EXCEPT !.grid = r.grid, !.schools = r.schools]
        ELSE [s EXCEPT !.grid = g,
                       !.municipalities = cleanupOrphanedStructures(g, s.municipalities,
                                             tile.municipalityId, tile.areaId, tile.unitId)]

\* variant: the tile keeps its area and unit
clearTile_KeepsAreaAndUnit(s, c) ==
    LET tile == s.grid[c]
        r == IF tile.hasSchool THEN removeSchool(s.grid, s.schools, c[1], c[2])
             ELSE [grid |-> s.grid, schools |-> s.schools, ret |-> FALSE]
        g == [r.grid EXCEPT ![c].municipalityId = NoId, ![c].hasSchool = FALSE]
    IN  [s EXCEPT !.grid = g, !.schools = r.schools,
                  !.municipalities = cleanupOrphanedStructures(g, s.municipalities,
                                        tile.municipalityId, tile.areaId, tile.unitId)]

clearTile(s, c) ==
    LET tile == s.grid[c]
        r == IF tile.hasSchool THEN removeSchool(s.grid, s.schools, c[1], c[2])
             ELSE [grid |-> s.grid, schools |-> s.schools, ret |-> FALSE]
        g == [r.grid EXCEPT ![c] = EmptyTile]
    IN  [s EXCEPT !.grid = g, !.schools = r.schools,
                  !.municipalities = cleanupOrphanedStructures(g, s.municipalities,
                                        tile.municipalityId, tile.areaId, tile.unitId)]

\* variant: a position off the grid is moved to the nearest cell
paintAt_ClampsToGrid(s, mode, c) ==
    LET d == <<Max(0, Min(GRID_SIZE - 1, c[1])), Max(0, Min(GRID_SIZE - 1, c[2]))>>
    IN  CASE mode = "municipality" -> paintMunicipality(s, d)
          [] mode = "area" -> paintArea(s, d)
          [] mode = "unit" -> paintUnit(s, d)
          [] mode = "school" -> paintSchool(s, d)
          [] mode = "clear" -> clearTile(s, d)
          [] OTHER -> s

\* paintAt, after screenToGrid has turned the pointer position into the cell c
paintAt(s, mode, c) ==
    IF ~isValidPosition(c[1], c[2]) THEN s
    ELSE CASE mode = "municipality" -> paintMunicipality(s, c)
           [] mode = "area" -> paintArea(s, c)
           [] mode = "unit" -> paintUnit(s, c)
           [] mode = "school" -> paintSchool(s, c)
           [] mode = "clear" -> clearTile(s, c)
           [] OTHER -> s

\* the exploration stops at the bounds
WithinBounds(s) ==
    /\ s.counter <= MaxMunicipalities + 1
    /\ \A m \in AllMunicipalities(s.municipalities) : Len(m.areas) <= MaxAreas
    /\ \A a \in AllAreas(s.municipalities) : Len(a.units) <= MaxUnits
    /\ s.schoolCounter <= MaxSchools

Install(s) ==
    /\ WithinBounds(s)
    /\ grid' = s.grid
    /\ municipalities' = s.municipalities
    /\ counter' = s.counter
    /\ schools' = s.schools
    /\ schoolCounter' = s.schoolCounter
    /\ currentMunicipalityId' = s.currentMunicipalityId
    /\ currentAreaId' = s.currentAreaId
    /\ currentUnitId' = s.currentUnitId

----------------------------------------------------------------------------
(* RenderingService: zoom, camera and the isometric transform.  Numbers are  *)
(* exact: a zoom factor is counted in twentieths (the smallest zoom step is  *)
(* 0.05), a screen coordinate in fifths of a pixel, so that every product    *)
(* of a tile size and a zoom factor is an integer.                           *)

TILE_WIDTH == 64

TILE_HEIGHT == 32

OFFSET_X == 400

OFFSET_Y == 100

\* zoom 1.0
ZoomUnit == 20

\* one pixel
PixelUnit == 5

\* const panBuffer = 300 (pixels)
panBuffer == 300

\* Math.round(n / d) for d > 0: halves go up
Round(n, d) == (2 * n + d) \div (2 * d)

\* the fields of the rendering service
View ==
    [zoom |-> zoom, cameraOffsetX |-> cameraOffsetX, cameraOffsetY |-> cameraOffsetY,
     canvasWidth |-> canvasWidth, canvasHeight |-> canvasHeight, gridSize |-> gridSize,
     mapOffsetX |-> mapOffsetX, mapOffsetY |-> mapOffsetY]

\* the rendering service after construction
InitialView ==
    [zoom |-> ZoomUnit, cameraOffsetX |-> 0, cameraOffsetY |-> 0,
     canvasWidth |-> 0, canvasHeight |-> 0, gridSize |-> 0,
     mapOffsetX |-> OFFSET_X * PixelUnit, mapOffsetY |-> OFFSET_Y * PixelUnit]

\* Math.max(0.5, Math.min(zoom, 2))
\* variant: only the upper bound is applied
clampZoom_NoLowerBound(z) == Min(z, 2 * ZoomUnit)

clampZoom(z) == Max(ZoomUnit \div 2, Min(z, 2 * ZoomUnit))

\* maxPanX and maxPanY, in fifths of a pixel
maxPan(v) ==
    LET totalGridWidth == (v.gridSize * TILE_WIDTH * v.zoom * PixelUnit) \div ZoomUnit
        totalGridHeight == (v.gridSize * TILE_HEIGHT * v.zoom * PixelUnit) \div ZoomUnit
    IN  [x |-> Max(panBuffer * PixelUnit,
                   (totalGridWidth - v.canvasWidth * PixelUnit) \div 2 + panBuffer * PixelUnit),
         y |-> Max(panBuffer * PixelUnit,
                   (totalGridHeight - v.canvasHeight * PixelUnit) \div 2 + panBuffer * PixelUnit)]

applyPanBoundaries(v) ==
    IF v.gridSize = 0 THEN v
    ELSE [v EXCEPT !.cameraOffsetX = Max(-maxPan(v).x, Min(maxPan(v).x, @)),
                   !.cameraOffsetY = Max(-maxPan(v).y, Min(maxPan(v).y, @))]

setZoom(v, z) == applyPanBoundaries([v EXCEPT !.zoom = clampZoom(z)])

panCamera(v, deltaX, deltaY) ==
    applyPanBoundaries([v EXCEPT !.cameraOffsetX = @ + deltaX, !.cameraOffsetY = @ + deltaY])

resetCameraPosition(v) == [v EXCEPT !.cameraOffsetX = 0, !.cameraOffsetY = 0]

\* centerGrid(canvasWidth, canvasHeight, gridSize), the sizes in pixels
centerGrid(v, width, height, size) ==
    LET totalGridWidth == size * TILE_WIDTH
        totalGridHeight == size * TILE_HEIGHT
    IN  [v EXCEPT !.canvasWidth = width, !.canvasHeight = height, !.gridSize = size,
                  !.mapOffsetX = ((width - totalGridWidth) * PixelUnit) \div 2
                                    + (totalGridWidth * PixelUnit) \div 2,
                  !.mapOffsetY = ((height - totalGridHeight) * PixelUnit) \div 2
                                    + (totalGridHeight * PixelUnit) \div 4]

\* gridToScreen(x, y): <<sx, sy>>
gridToScreen(v, x, y) ==
    << v.mapOffsetX + ((x - y) * (TILE_WIDTH \div 2) * v.zoom * PixelUnit) \div ZoomUnit
          + v.cameraOffsetX,
       v.mapOffsetY + ((x + y) * (TILE_HEIGHT \div 2) * v.zoom * PixelUnit) \div ZoomUnit
          + v.cameraOffsetY >>

\* screenToGrid(sx, sy): <<x, y>>; adjustedX / (tileWidth / 2) and adjustedY /
\* (tileHeight / 2) are brought to the common denominator before rounding
\* variant: the camera offset is not taken off
screenToGrid_NoCamera(v, sx, sy) ==
    LET dX == sx - v.mapOffsetX
        dY == sy - v.mapOffsetY
        denominator == 2 * (TILE_WIDTH \div 2) * (TILE_HEIGHT \div 2) * PixelUnit * v.zoom
    IN  << Round((dX * (TILE_HEIGHT \div 2) + dY * (TILE_WIDTH \div 2)) * ZoomUnit, denominator),
           Round((dY * (TILE_WIDTH \div 2) - dX * (TILE_HEIGHT \div 2)) * ZoomUnit, denominator) >>

screenToGrid(v, sx, sy) ==
    LET dX == sx - v.mapOffsetX - v.cameraOffsetX
        dY == sy - v.mapOffsetY - v.cameraOffsetY
        denominator == 2 * (TILE_WIDTH \div 2) * (TILE_HEIGHT \div 2) * PixelUnit * v.zoom
    IN  << Round((dX * (TILE_HEIGHT \div 2) + dY * (TILE_WIDTH \div 2)) * ZoomUnit, denominator),
           Round((dY * (TILE_WIDTH \div 2) - dX * (TILE_HEIGHT \div 2)) * ZoomUnit, denominator) >>

\* drawTile(x, y): the four corners of the diamond it fills
drawTile(v, x, y) ==
    LET s == gridToScreen(v, x, y)
        halfTileW == ((TILE_WIDTH \div 2) * v.zoom * PixelUnit) \div ZoomUnit
        halfTileH == ((TILE_HEIGHT \div 2) * v.zoom * PixelUnit) \div ZoomUnit
        tileH == (TILE_HEIGHT * v.zoom * PixelUnit) \div ZoomUnit
    IN  [top |-> s, right |-> <<s[1] + halfTileW, s[2] + halfTileH>>,
         bottom |-> <<s[1], s[2] + tileH>>, left |-> <<s[1] - halfTileW, s[2] + halfTileH>>]

InitView ==
    /\ zoom = InitialView.zoom
    /\ cameraOffsetX = InitialView.cameraOffsetX
    /\ cameraOffsetY = InitialView.cameraOffsetY
    /\ canvasWidth = InitialView.canvasWidth
    /\ canvasHeight = InitialView.canvasHeight
    /\ gridSize = InitialView.gridSize
    /\ mapOffsetX = InitialView.mapOffsetX
    /\ mapOffsetY = InitialView.mapOffsetY
    /\ gestures = 0

\* the exploration follows that many camera operations
MaxGestures == 3

InstallView(v) ==
    /\ gestures < MaxGestures
    /\ gestures' = gestures + 1
    /\ zoom' = v.zoom
    /\ cameraOffsetX' = v.cameraOffsetX
    /\ cameraOffsetY' = v.cameraOffsetY
    /\ canvasWidth' = v.canvasWidth
    /\ canvasHeight' = v.canvasHeight
    /\ gridSize' = v.gridSize
    /\ mapOffsetX' = v.mapOffsetX
    /\ mapOffsetY' = v.mapOffsetY

----------------------------------------------------------------------------
(* GameDataService: the saved game.  A JSON text is the record of what      *)
(* JSON.parse and validateSaveData can tell about it: whether it parses,    *)
(* whether version, timestamp and metadata.gridSize have the expected type, *)
(* and each array as <<array>>, or <<>> when the member is not an array.    *)
(* An entry of the schools array is <<school>>, or <<>> for null.           *)

\* localStorage.getItem returns null
NoData == <<>>

\* getAllSchools() as JSON.stringify writes it
savedSchools(ss) == [i \in 1 .. Len(ss) |-> <<ss[i]>>]

\* createSaveData and JSON.stringify; the school counter is not part of it
createSaveData(g, ms, c, ss) ==
    [parses |-> TRUE, version |-> TRUE, timestamp |-> TRUE,
     grid |-> <<g>>, municipalities |-> <<ms>>, schools |-> <<savedSchools(ss)>>,
     municipalityCounter |-> IF c # 0 THEN c ELSE 1,
     gridSize |-> TRUE]

validateSaveData(data) ==
    /\ data.version
    /\ data.timestamp
    /\ data.grid # <<>>
    /\ data.municipalities # <<>>
    /\ data.schools # <<>>
    /\ data.gridSize

\* GridService.loadGrid(savedGrid): the saved tiles become the grid
loadGrid(savedGrid) == savedGrid

\* variant: the counter is derived from the number of municipalities
loadMunicipalities_CounterFromLength(savedMunicipalities, savedCounter) ==
    [municipalities |-> savedMunicipalities, counter |-> Len(savedMunicipalities) + 1]

\* loadMunicipalities(savedMunicipalities, savedCounter)
loadMunicipalities(savedMunicipalities, savedCounter) ==
    [municipalities |-> savedMunicipalities, counter |-> savedCounter]

\* the highest N among the ids school_N of the entries
RECURSIVE maxCounter(_, _)
maxCounter(entries, i) ==
    IF i > Len(entries) THEN 0 ELSE Max(entries[i][1].id, maxCounter(entries, i + 1))

\* the forEach of loadSchools from entry i on: each entry is registered and its
\* footprint marked; a null entry raises a TypeError and the loop is left
RECURSIVE loadSchoolsFrom(_, _, _, _)
loadSchoolsFrom(entries, i, g, ss) ==
    IF i > Len(entries) THEN [grid |-> g, schools |-> ss, threw |-> FALSE]
    ELSE IF entries[i] = <<>> THEN [grid |-> g, schools |-> ss, threw |-> TRUE]
    ELSE loadSchoolsFrom(entries, i + 1,
                         MarkFootprint(g, Footprint(entries[i][1].position[1],
                                                    entries[i][1].position[2],
                                                    entries[i][1].size)),
                         Append(ss, entries[i][1]))

\* loadSchools(savedSchools): schools.clear(), the forEach, then schoolCounter = maxCounter
loadSchools(entries, g, sc) ==
    LET r == loadSchoolsFrom(entries, 1, g, <<>>)
    IN  [grid |-> r.grid, schools |-> r.schools,
         schoolCounter |-> IF r.threw THEN sc ELSE maxCounter(entries, 1),
         threw |-> r.threw]

\* restoreGameState(gameData) on valid data: grid, registry, schools, in that order
restoreGameState(s, data) ==
    LET m == loadMunicipalities(data.municipalities[1], data.municipalityCounter)
        r == loadSchools(data.schools[1], loadGrid(data.grid[1]), s.schoolCounter)
    IN  [s EXCEPT !.grid = r.grid, !.municipalities = m.municipalities, !.counter = m.counter,
                  !.schools = r.schools, !.schoolCounter = r.schoolCounter,
                  !.ret = IF r.threw THEN 0 ELSE 1]

\* the body shared by loadGameData and importGameData once the text is at hand:
\* JSON.parse, validateSaveData, restoreGameState; ret 1 for true, 0 for false
loadData(s, data) ==
    IF ~data.parses THEN [s EXCEPT !.ret = 0]
    ELSE IF ~validateSaveData(data) THEN [s EXCEPT !.ret = 0]
    ELSE restoreGameState(s, data)

\* loadGameData()
loadGameData(s, stored) ==
    IF stored = NoData THEN [s EXCEPT !.ret = 0] ELSE loadData(s, stored[1])

----------------------------------------------------------------------------
(* Actions *)

\* the modes that paint a boundary level
BoundaryModes == {"municipality", "area", "unit"}

\* number of municipalities, areas and units the registry holds
EntityCount(ms) == Len(ms) + Cardinality(AllAreas(ms)) + Cardinality(AllUnits(ms))

\* no stroke of a boundary mode is being followed
NoStroke == [tracked |-> FALSE, created |-> 0, visited |-> {}, changed |-> {}]

\* the stroke after paintAt has taken the program from state s0 to state s1 at cell c
StrokeStep(st, s0, s1, c) ==
    [tracked |-> TRUE,
     created |-> st.created + EntityCount(s1.municipalities) - EntityCount(s0.municipalities),
     visited |-> st.visited \cup ({c} \cap Cells),
     changed |-> st.changed \cup {d \in Cells : s1.grid[d] # s0.grid[d]}]

NoPos == <<0, 0>>

Init ==
    /\ grid = initializeGrid
    /\ municipalities = <<>>
    /\ counter = 1
    /\ schools = <<>>
    /\ schoolCounter = 0
    /\ paintMode = "null"
    /\ currentMunicipalityId = NoId
    /\ currentAreaId = NoId
    /\ currentUnitId = NoId
    /\ isSelecting = FALSE
    /\ InitView
    /\ storage = <<createSaveData(initializeGrid, <<>>, 1, <<>>)>>
    /\ stroke = NoStroke
    /\ last = [op |-> "init", pos |-> NoPos, ret |-> 0]

\* variant: every active id is reset, the one of the entered mode too
SetPaintMode_ResetsAll(mode) ==
    /\ paintMode' = mode
    /\ currentMunicipalityId' = NoId
    /\ currentAreaId' = NoId
    /\ currentUnitId' = NoId
    /\ stroke' = NoStroke
    /\ last' = [op |-> "setPaintMode", pos |-> NoPos, ret |-> 0]
    /\ UNCHANGED <<grid, registryVars, schoolVars, isSelecting, viewVars, storage>>

\* variant: the active ids of the outer levels are kept
SetPaintMode_KeepsOuter(mode) ==
    /\ paintMode' = mode
    /\ currentMunicipalityId' = IF mode \notin BoundaryModes THEN NoId ELSE currentMunicipalityId
    /\ currentAreaId' = IF mode \notin {"area", "unit"} THEN NoId ELSE currentAreaId
    /\ currentUnitId' = IF mode # "unit" THEN NoId ELSE currentUnitId
    /\ stroke' = NoStroke
    /\ last' = [op |-> "setPaintMode", pos |-> NoPos, ret |-> 0]
    /\ UNCHANGED <<grid, registryVars, schoolVars, isSelecting, viewVars, storage>>

\* setSelectedBoundary("paint:<mode>") -> setPaintMode(mode)
SetPaintMode(mode) ==
    /\ paintMode' = mode
    /\ currentMunicipalityId' = IF mode # "municipality" THEN NoId ELSE currentMunicipalityId
    /\ currentAreaId' = IF mode # "area" THEN NoId ELSE currentAreaId
    /\ currentUnitId' = IF mode # "unit" THEN NoId ELSE currentUnitId
    /\ stroke' = NoStroke
    /\ last' = [op |-> "setPaintMode", pos |-> NoPos, ret |-> 0]
    /\ UNCHANGED <<grid, registryVars, schoolVars, isSelecting, viewVars, storage>>

\* startNewMunicipality: "paint:reset_municipality", then setPaintMode("municipality")
StartNewMunicipality ==
    /\ paintMode' = "municipality"
    /\ currentMunicipalityId' = NoId
    /\ currentAreaId' = NoId
    /\ currentUnitId' = NoId
    /\ stroke' = NoStroke
    /\ last' = [op |-> "startNewMunicipality", pos |-> NoPos, ret |-> 0]
    /\ UNCHANGED <<grid, registryVars, schoolVars, isSelecting, viewVars, storage>>

\* pointerdown: in a paint mode the stroke starts and the cell is painted; with no
\* paint mode (and no selection of the old system) nothing is written
PointerDown(c) ==
    IF paintMode # "null"
    THEN /\ isSelecting' = TRUE
         /\ \E s \in {paintAt(State, paintMode, c)} :
                /\ Install(s)
                /\ stroke' = IF paintMode \in BoundaryModes
                             THEN StrokeStep(NoStroke, State, s, c) ELSE NoStroke
                /\ last' = [op |-> "paint", pos |-> c, ret |-> s.ret]
         /\ UNCHANGED <<paintMode, viewVars, storage>>
    ELSE /\ last' = [op |-> "pointerdown", pos |-> NoPos, ret |-> 0]
         /\ UNCHANGED <<grid, registryVars, schoolVars, sceneVars, viewVars, storage, stroke>>

\* variant: a move paints whenever a paint mode is selected
PointerMove_IgnoresStroke(c) ==
    IF paintMode # "null"
    THEN /\ \E s \in {paintAt(State, paintMode, c)} :
                /\ Install(s)
                /\ stroke' = IF stroke.tracked THEN StrokeStep(stroke, State, s, c) ELSE NoStroke
                /\ last' = [op |-> "paint", pos |-> c, ret |-> s.ret]
         /\ UNCHANGED <<paintMode, isSelecting, viewVars, storage>>
    ELSE /\ last' = [op |-> "pointermove", pos |-> NoPos, ret |-> 0]
         /\ UNCHANGED <<grid, registryVars, schoolVars, sceneVars, viewVars, storage, stroke>>

\* pointermove: paints only while a stroke is in progress
PointerMove(c) ==
    IF isSelecting /\ paintMode # "null"
    THEN /\ \E s \in {paintAt(State, paintMode, c)} :
                /\ Install(s)
                /\ stroke' = IF stroke.tracked THEN StrokeStep(stroke, State, s, c) ELSE NoStroke
                /\ last' = [op |-> "paint", pos |-> c, ret |-> s.ret]
         /\ UNCHANGED <<paintMode, isSelecting, viewVars, storage>>
    ELSE /\ last' = [op |-> "pointermove", pos |-> NoPos, ret |-> 0]
         /\ UNCHANGED <<grid, registryVars, schoolVars, sceneVars, viewVars, storage, stroke>>

PointerUp ==
    /\ isSelecting' = FALSE
    /\ stroke' = NoStroke
    /\ last' = [op |-> "pointerup", pos |-> NoPos, ret |-> 0]
    /\ UNCHANGED <<grid, registryVars, schoolVars, paintMode,
                   currentMunicipalityId, currentAreaId, currentUnitId, viewVars, storage>>

\* GameComponent.onCleanSlate: GameStateService.cleanSlate (which deletes the saved
\* data), then clearAll again, then saveGame; ret is the number of schools and
\* municipalities there were
CleanSlate ==
    /\ grid' = resetSchools.grid
    /\ schools' = resetSchools.schools
    /\ schoolCounter' = resetSchools.schoolCounter
    /\ municipalities' = clearAll.municipalities
    /\ counter' = clearAll.counter
    /\ storage' = <<createSaveData(resetSchools.grid, clearAll.municipalities,
                                    clearAll.counter, resetSchools.schools)>>
    /\ last' = [op |-> "cleanSlate", pos |-> NoPos, ret |-> Len(schools) + Len(municipalities)]
    /\ stroke' = NoStroke
    /\ UNCHANGED <<sceneVars, viewVars>>

Next ==
    \/ \E mode \in PaintModes : SetPaintMode(mode)
    \/ StartNewMunicipality
    \/ \E c \in PointerCells : PointerDown(c)
    \/ \E c \in PointerCells : PointerMove(c)
    \/ PointerUp
    \/ CleanSlate

Spec == Init /\ [][Next]_vars

----------------------------------------------------------------------------
(* Painted layouts: the grid after strokes that painted one municipality,  *)
(* one area and two units; the municipality is the last one the            *)
(* exploration admits                                                      *)

PaintedTile(u) ==
    [hasSchool |-> FALSE, municipalityId |-> <<MaxMunicipalities>>,
     areaId |-> <<MaxMunicipalities, 1>>, unitId |-> <<MaxMunicipalities, 1, u>>]

LayoutRegistry ==
    << [id |-> <<MaxMunicipalities>>,
        areas |-> << [id |-> <<MaxMunicipalities, 1>>,
                      municipalityId |-> <<MaxMunicipalities>>,
                      units |-> << [id |-> <<MaxMunicipalities, 1, 1>>,
                                    areaId |-> <<MaxMunicipalities, 1>>,
                                    municipalityId |-> <<MaxMunicipalities>>],
                                   [id |-> <<MaxMunicipalities, 1, 2>>,
                                    areaId |-> <<MaxMunicipalities, 1>>,
                                    municipalityId |-> <<MaxMunicipalities>>] >>] >>] >>

\* unit 1 on the cells A, unit 2 on the cells B, nothing painted elsewhere
LayoutGrid(A, B) ==
    [c \in Cells |-> IF c \in A THEN PaintedTile(1)
                     ELSE IF c \in B THEN PaintedTile(2) ELSE EmptyTile]

Rect(x0, y0, w, h) == (x0 .. x0 + w - 1) \X (y0 .. y0 + h - 1)

\* a painted layout in a browser whose store holds the given item
InitStored(g, stored) ==
    /\ grid = g
    /\ municipalities = LayoutRegistry
    /\ counter = MaxMunicipalities + 1
    /\ schools = <<>>
    /\ schoolCounter = 0
    /\ paintMode = "null"
    /\ currentMunicipalityId = NoId
    /\ currentAreaId = NoId
    /\ currentUnitId = NoId
    /\ isSelecting = FALSE
    /\ InitView
    /\ storage = stored
    /\ stroke = NoStroke
    /\ last = [op |-> "init", pos |-> NoPos, ret |-> 0]

InitPainted(g) ==
    /\ grid = g
    /\ municipalities = LayoutRegistry
    /\ counter = MaxMunicipalities + 1
    /\ schools = <<>>
    /\ schoolCounter = 0
    /\ paintMode = "null"
    /\ currentMunicipalityId = NoId
    /\ currentAreaId = NoId
    /\ currentUnitId = NoId
    /\ isSelecting = FALSE
    /\ InitView
    /\ storage = NoData
    /\ stroke = NoStroke
    /\ last = [op |-> "init", pos |-> NoPos, ret |-> 0]

----------------------------------------------------------------------------
(* Schools under the paint modes: a 4x2 unit with a 1x2 unit to its right *)

SchoolCells == {<<4, 5>>, <<5, 6>>, <<7, 5>>, <<8, 6>>}

InitSchools == InitPainted(LayoutGrid(Rect(4, 5, 4, 2), Rect(8, 5, 1, 2)))

\* GameComponent.removeSchool: the modal removes the school at the selected cell
RemoveSchool(c) ==
    /\ \E r \in {removeSchool(grid, schools, c[1], c[2])} :
           /\ grid' = r.grid
           /\ schools' = r.schools
           /\ last' = [op |-> "removeSchool", pos |-> c, ret |-> IF r.ret THEN 1 ELSE 0]
    /\ stroke' = NoStroke
    /\ UNCHANGED <<registryVars, schoolCounter, sceneVars, viewVars, storage>>

\* GameStateService.resetGame: schoolService.resetSchools()
ResetGame ==
    /\ grid' = resetSchools.grid
    /\ schools' = resetSchools.schools
    /\ schoolCounter' = resetSchools.schoolCounter
    /\ last' = [op |-> "resetGame", pos |-> NoPos, ret |-> 0]
    /\ stroke' = NoStroke
    /\ UNCHANGED <<registryVars, sceneVars, viewVars, storage>>

NextSchools ==
    \/ \E mode \in PaintModes : SetPaintMode(mode)
    \/ \E c \in SchoolCells : PointerDown(c)
    \/ \E c \in SchoolCells : PointerMove(c)
    \/ PointerUp
    \/ \E c \in SchoolCells : RemoveSchool(c)
    \/ ResetGame

SpecSchools == InitSchools /\ [][NextSchools]_vars

----------------------------------------------------------------------------
(* placeSchoolAuto on painted rectangles at two corners of the grid *)

MaxWidth == 5

MaxHeight == 4

PlacementLayouts ==
    {LayoutGrid(Rect(0, 0, w, h), Rect(w, 0, 1, h)) :
        <<w, h>> \in (1 .. MaxWidth) \X (1 .. MaxHeight)}
    \cup
    {LayoutGrid(Rect(GRID_SIZE - w, GRID_SIZE - h, w, h), Rect(GRID_SIZE - w - 1, GRID_SIZE - h, 1, h)) :
        <<w, h>> \in (2 .. MaxWidth - 1) \X (2 .. MaxHeight - 1)}

ClickCells ==
    {<<0, 0>>, <<1, 0>>, <<0, 1>>, <<1, 1>>, <<2, 1>>, <<2, 2>>, <<3, 1>>, <<3, 2>>, <<4, 0>>, <<4, 3>>,
     <<9, 9>>, <<8, 8>>, <<7, 8>>, <<6, 7>>, <<-1, 0>>, <<10, 9>>}

InitPlacement == \E g \in PlacementLayouts : InitPainted(g)

\* a call of SchoolService.placeSchoolAuto(x, y)
PlaceSchoolAuto(c) ==
    /\ \E r \in {placeSchoolAuto(grid, schools, schoolCounter, c[1], c[2])} :
           /\ r.schoolCounter <= MaxSchools
           /\ grid' = r.grid
           /\ schools' = r.schools
           /\ schoolCounter' = r.schoolCounter
           /\ last' = [op |-> "placeSchoolAuto", pos |-> c, ret |-> r.ret]
    /\ stroke' = NoStroke
    /\ UNCHANGED <<registryVars, sceneVars, viewVars, storage>>

RemoveCells == {<<0, 0>>, <<GRID_SIZE - 1, GRID_SIZE - 1>>}

NextPlacement ==
    \/ \E c \in ClickCells : PlaceSchoolAuto(c)
    \/ \E c \in RemoveCells : RemoveSchool(c)

SpecPlacement == InitPlacement /\ [][NextPlacement]_vars

----------------------------------------------------------------------------
(* The student counts and capacities of the school service *)

StudentCounts == {150}

RequestedCapacities == {5, 2000}

StudentCells == {<<0, 0>>, <<2, 0>>}

SchoolTypeNames == {"ELEMENTARY", "MIDDLE", "HIGH"}

InitStudents == InitPainted(LayoutGrid(Rect(0, 0, 4, 3), Rect(4, 0, 1, 3)))

\* the index in the registry of the school with that id; 0 when there is none
schoolIndex(ss, id) == FindIndex(ss, LAMBDA s : s.id = id)

updateSchoolCapacity(ss, id, newCapacity) ==
    LET i == schoolIndex(ss, id)
    IN  IF i # 0
        THEN [schools |-> [ss EXCEPT ![i].capacity = Max(MIN_CAPACITY, Min(MAX_CAPACITY, newCapacity))],
              ret |-> TRUE]
        ELSE [schools |-> ss, ret |-> FALSE]

\* variant: the capacity is not compared
addStudents_NoCapacityCheck(ss, id, count) ==
    LET i == schoolIndex(ss, id)
    IN  IF i # 0
        THEN [schools |-> [ss EXCEPT ![i].currentStudents = @ + count], ret |-> TRUE]
        ELSE [schools |-> ss, ret |-> FALSE]

addStudents(ss, id, count) ==
    LET i == schoolIndex(ss, id)
    IN  IF i # 0 /\ ss[i].currentStudents + count <= ss[i].capacity
        THEN [schools |-> [ss EXCEPT ![i].currentStudents = @ + count], ret |-> TRUE]
        ELSE [schools |-> ss, ret |-> FALSE]

removeStudents(ss, id, count) ==
    LET i == schoolIndex(ss, id)
    IN  IF i # 0
        THEN [schools |-> [ss EXCEPT ![i].currentStudents = Max(0, @ - count)], ret |-> TRUE]
        ELSE [schools |-> ss, ret |-> FALSE]

\* a call of SchoolService.placeSchool(x, y, type)
PlaceSchool(c, type) ==
    /\ \E r \in {placeSchool(grid, schools, schoolCounter, c[1], c[2], type)} :
           /\ r.schoolCounter <= MaxSchools
           /\ grid' = r.grid
           /\ schools' = r.schools
           /\ schoolCounter' = r.schoolCounter
           /\ last' = [op |-> "placeSchool", pos |-> c, ret |-> r.ret]
    /\ stroke' = NoStroke
    /\ UNCHANGED <<registryVars, sceneVars, viewVars, storage>>

AddStudents(id, count) ==
    /\ \E r \in {addStudents(schools, id, count)} :
           /\ schools' = r.schools
           /\ last' = [op |-> "addStudents", pos |-> <<id, count>>, ret |-> IF r.ret THEN 1 ELSE 0]
    /\ stroke' = NoStroke
    /\ UNCHANGED <<grid, registryVars, schoolCounter, sceneVars, viewVars, storage>>

RemoveStudents(id, count) ==
    /\ \E r \in {removeStudents(schools, id, count)} :
           /\ schools' = r.schools
           /\ last' = [op |-> "removeStudents", pos |-> <<id, count>>, ret |-> IF r.ret THEN 1 ELSE 0]
    /\ stroke' = NoStroke
    /\ UNCHANGED <<grid, registryVars, schoolCounter, sceneVars, viewVars, storage>>

UpdateSchoolCapacity(id, newCapacity) ==
    /\ \E r \in {updateSchoolCapacity(schools, id, newCapacity)} :
           /\ schools' = r.schools
           /\ last' = [op |-> "updateSchoolCapacity", pos |-> <<id, newCapacity>>,
                       ret |-> IF r.ret THEN 1 ELSE 0]
    /\ stroke' = NoStroke
    /\ UNCHANGED <<grid, registryVars, schoolCounter, sceneVars, viewVars, storage>>

NextStudents ==
    \/ \E c \in StudentCells, type \in SchoolTypeNames : PlaceSchool(c, type)
    \/ \E id \in 1 .. MaxSchools + 1, n \in StudentCounts : AddStudents(id, n)
    \/ \E id \in 1 .. MaxSchools + 1, n \in StudentCounts : RemoveStudents(id, n)
    \/ \E id \in 1 .. MaxSchools + 1, cap \in RequestedCapacities : UpdateSchoolCapacity(id, cap)

SpecStudents == InitStudents /\ [][NextStudents]_vars

----------------------------------------------------------------------------
(* Zoom and pan of the camera *)

\* the canvas sizes centerGrid is called with, in pixels
CanvasSizes == {<<900, 600>>, <<400, 300>>}

\* the pointer movements of a pan gesture, in pixels
PanDeltas == {<<-1000, 0>>, <<1000, 0>>, <<0, -1000>>, <<0, 1000>>}

\* the mouse positions of wheel events, in pixels
WheelPoints == {<<450, 300>>, <<200, 100>>}

\* the camera operations that end in setZoom
ZoomOps == {"zoomIn", "zoomOut", "pinch", "wheel"}

\* ngAfterViewInit: centerGrid(width, height, GRID.SIZE)
CenterGrid(size) ==
    /\ InstallView(centerGrid(View, size[1], size[2], GRID_SIZE))
    /\ last' = [op |-> "centerGrid", pos |-> size, ret |-> 0]
    /\ stroke' = NoStroke
    /\ UNCHANGED <<grid, registryVars, schoolVars, sceneVars, storage>>

\* zoomIn: setZoom(getZoom() + 0.1); ret is the requested zoom
ZoomIn ==
    /\ InstallView(setZoom(View, zoom + ZoomUnit \div 10))
    /\ last' = [op |-> "zoomIn", pos |-> NoPos, ret |-> zoom + ZoomUnit \div 10]
    /\ stroke' = NoStroke
    /\ UNCHANGED <<grid, registryVars, schoolVars, sceneVars, storage>>

\* zoomOut: setZoom(getZoom() - 0.1)
ZoomOut ==
    /\ InstallView(setZoom(View, zoom - ZoomUnit \div 10))
    /\ last' = [op |-> "zoomOut", pos |-> NoPos, ret |-> zoom - ZoomUnit \div 10]
    /\ stroke' = NoStroke
    /\ UNCHANGED <<grid, registryVars, schoolVars, sceneVars, storage>>

\* onTouchMove with two fingers: setZoom(getZoom() +- 0.05)
Pinch(direction) ==
    /\ InstallView(setZoom(View, zoom + direction * (ZoomUnit \div 20)))
    /\ last' = [op |-> "pinch", pos |-> NoPos, ret |-> zoom + direction * (ZoomUnit \div 20)]
    /\ stroke' = NoStroke
    /\ UNCHANGED <<grid, registryVars, schoolVars, sceneVars, storage>>

\* onWheel: the cell under the mouse before the zoom, setZoom, then panCamera by the
\* distance of the mouse to that cell's new screen position
OnWheel(direction, mouse) ==
    /\ \E beforeGrid \in {screenToGrid(View, mouse[1] * PixelUnit, mouse[2] * PixelUnit)} :
       \E v \in {setZoom(View, zoom + direction * (ZoomUnit \div 20))} :
       \E afterScreen \in {gridToScreen(v, beforeGrid[1], beforeGrid[2])} :
           /\ InstallView(panCamera(v, mouse[1] * PixelUnit - afterScreen[1],
                                       mouse[2] * PixelUnit - afterScreen[2]))
           /\ last' = [op |-> "wheel", pos |-> beforeGrid,
                       ret |-> zoom + direction * (ZoomUnit \div 20)]
    /\ stroke' = NoStroke
    /\ UNCHANGED <<grid, registryVars, schoolVars, sceneVars, storage>>

\* updatePan: panCamera(deltaX, deltaY)
UpdatePan(delta) ==
    /\ InstallView(panCamera(View, delta[1] * PixelUnit, delta[2] * PixelUnit))
    /\ last' = [op |-> "updatePan", pos |-> delta, ret |-> 0]
    /\ stroke' = NoStroke
    /\ UNCHANGED <<grid, registryVars, schoolVars, sceneVars, storage>>

\* resetCamera: resetCameraPosition()
ResetCamera ==
    /\ InstallView(resetCameraPosition(View))
    /\ last' = [op |-> "resetCamera", pos |-> NoPos, ret |-> 0]
    /\ stroke' = NoStroke
    /\ UNCHANGED <<grid, registryVars, schoolVars, sceneVars, storage>>

NextCamera ==
    \/ \E size \in CanvasSizes : CenterGrid(size)
    \/ ZoomIn
    \/ ZoomOut
    \/ \E direction \in {-1, 1} : Pinch(direction)
    \/ \E direction \in {-1, 1}, mouse \in WheelPoints : OnWheel(direction, mouse)
    \/ \E delta \in PanDeltas : UpdatePan(delta)
    \/ ResetCamera

\* the zoom factors the camera starts from: the one of a new rendering service and
\* the two ends of the range, which the zoom buttons lead to
InitialZooms == {ZoomUnit \div 2, ZoomUnit, 2 * ZoomUnit}

InitCamera ==
    /\ grid = initializeGrid
    /\ municipalities = <<>>
    /\ counter = 1
    /\ schools = <<>>
    /\ schoolCounter = 0
    /\ paintMode = "null"
    /\ currentMunicipalityId = NoId
    /\ currentAreaId = NoId
    /\ currentUnitId = NoId
    /\ isSelecting = FALSE
    /\ zoom \in InitialZooms
    /\ cameraOffsetX = InitialView.cameraOffsetX
    /\ cameraOffsetY = InitialView.cameraOffsetY
    /\ canvasWidth = InitialView.canvasWidth
    /\ canvasHeight = InitialView.canvasHeight
    /\ gridSize = InitialView.gridSize
    /\ mapOffsetX = InitialView.mapOffsetX
    /\ mapOffsetY = InitialView.mapOffsetY
    /\ gestures = 0
    /\ storage = NoData
    /\ stroke = NoStroke
    /\ last = [op |-> "init", pos |-> NoPos, ret |-> 0]

SpecCamera == InitCamera /\ [][NextCamera]_vars

----------------------------------------------------------------------------
(* Saving and loading: a painted layout with schools, and a browser store   *)
(* that may hold a text this session did not write                          *)

\* a save of another session: a 2x2 unit, no school
BaseSave ==
    createSaveData(LayoutGrid(Rect(0, 0, 2, 2), {}), LayoutRegistry, MaxMunicipalities + 1, <<>>)

\* texts from outside: the save above, a text that does not parse, one failure of
\* each check of validateSaveData, and a schools array that holds null
ForeignTexts ==
    {BaseSave,
     [BaseSave EXCEPT !.parses = FALSE],
     [BaseSave EXCEPT !.version = FALSE],
     [BaseSave EXCEPT !.timestamp = FALSE],
     [BaseSave EXCEPT !.grid = <<>>],
     [BaseSave EXCEPT !.municipalities = <<>>],
     [BaseSave EXCEPT !.schools = <<>>],
     [BaseSave EXCEPT !.gridSize = FALSE],
     [BaseSave EXCEPT !.schools = << << <<>> >> >>]}

StorageCells == {<<0, 0>>, <<2, 0>>}

InitStorage ==
    \E stored \in {NoData} \cup {<<t>> : t \in ForeignTexts} :
        InitStored(LayoutGrid(Rect(0, 0, 4, 3), Rect(4, 0, 1, 3)), stored)

\* GameComponent.saveGame: saveGameData()
SaveGame ==
    /\ storage' = <<createSaveData(grid, municipalities, counter, schools)>>
    /\ last' = [op |-> "saveGame", pos |-> NoPos, ret |-> 1]
    /\ stroke' = NoStroke
    /\ UNCHANGED <<grid, registryVars, schoolVars, sceneVars, viewVars>>

\* GameComponent.loadGame: loadGameData()
LoadGame ==
    /\ \E r \in {loadGameData(State, storage)} :
           /\ Install(r)
           /\ last' = [op |-> "loadGame", pos |-> NoPos, ret |-> r.ret]
    /\ stroke' = NoStroke
    /\ UNCHANGED <<paintMode, isSelecting, viewVars, storage>>

\* importGameData(jsonData): as loadGameData on the given text, then saveGameData
ImportGameData(data) ==
    /\ \E r \in {loadData(State, data)} :
           /\ Install(r)
           /\ storage' = IF r.ret = 1
                         THEN <<createSaveData(r.grid, r.municipalities, r.counter, r.schools)>>
                         ELSE storage
           /\ last' = [op |-> "importGameData", pos |-> NoPos, ret |-> r.ret]
    /\ stroke' = NoStroke
    /\ UNCHANGED <<paintMode, isSelecting, viewVars>>

NextStorage ==
    \/ \E c \in StorageCells, type \in SchoolTypeNames : PlaceSchool(c, type)
    \/ \E c \in StorageCells : RemoveSchool(c)
    \/ \E id \in 1 .. MaxSchools, n \in StudentCounts : AddStudents(id, n)
    \/ SaveGame
    \/ LoadGame
    \/ \E data \in ForeignTexts : ImportGameData(data)
    \/ CleanSlate

SpecStorage == InitStorage /\ [][NextStorage]_vars

----------------------------------------------------------------------------
(* Coordinates at and beyond the edge of the grid: a 2x2 unit in the last   *)
(* corner with a 1x2 unit to its left                                       *)

\* the corner cell and one position beyond each edge
EdgeCells == {<<GRID_SIZE - 1, GRID_SIZE - 1>>, <<GRID_SIZE, GRID_SIZE - 1>>,
              <<GRID_SIZE - 1, GRID_SIZE>>, <<-1, GRID_SIZE - 1>>, <<GRID_SIZE - 1, -1>>}

InitEdge ==
    InitPainted(LayoutGrid(Rect(GRID_SIZE - 2, GRID_SIZE - 2, 2, 2),
                           Rect(GRID_SIZE - 3, GRID_SIZE - 2, 1, 2)))

\* a call of GridService.getTile(x, y); ret 1 for a tile, 0 for null
GetTile(c) ==
    /\ last' = [op |-> "getTile", pos |-> c,
                ret |-> IF getTileOrNull(grid, c[1], c[2]) # <<>> THEN 1 ELSE 0]
    /\ stroke' = NoStroke
    /\ UNCHANGED <<grid, registryVars, schoolVars, sceneVars, viewVars, storage>>

\* a call of GridService.setTileSchool(x, y, hasSchool); ret 1 for true
GridSetTileSchool(c, flag) ==
    /\ grid' = setTileSchool(grid, c[1], c[2], flag)
    /\ last' = [op |-> "setTileSchool", pos |-> c,
                ret |-> IF isValidPosition(c[1], c[2]) THEN 1 ELSE 0]
    /\ stroke' = NoStroke
    /\ UNCHANGED <<registryVars, schoolVars, sceneVars, viewVars, storage>>

\* a call of GridService.placeSchool(x, y)
GridPlaceSchool(c) ==
    /\ grid' = gridPlaceSchool(grid, c[1], c[2])
    /\ last' = [op |-> "gridPlaceSchool", pos |-> c,
                ret |-> IF isValidPosition(c[1], c[2]) /\ ~hasSchool(grid, c[1], c[2])
                        THEN 1 ELSE 0]
    /\ stroke' = NoStroke
    /\ UNCHANGED <<registryVars, schoolVars, sceneVars, viewVars, storage>>

\* a call of GridService.removeSchool(x, y)
GridRemoveSchool(c) ==
    /\ grid' = gridRemoveSchool(grid, c[1], c[2])
    /\ last' = [op |-> "gridRemoveSchool", pos |-> c,
                ret |-> IF isValidPosition(c[1], c[2]) /\ hasSchool(grid, c[1], c[2])
                        THEN 1 ELSE 0]
    /\ stroke' = NoStroke
    /\ UNCHANGED <<registryVars, schoolVars, sceneVars, viewVars, storage>>

NextEdge ==
    \/ \E mode \in PaintModes : SetPaintMode(mode)
    \/ \E c \in EdgeCells : PointerDown(c)
    \/ \E c \in EdgeCells : PlaceSchoolAuto(c)
    \/ \E c \in EdgeCells : RemoveSchool(c)
    \/ \E c \in EdgeCells : GetTile(c)
    \/ \E c \in EdgeCells, flag \in BOOLEAN : GridSetTileSchool(c, flag)
    \/ \E c \in EdgeCells : GridPlaceSchool(c)
    \/ \E c \in EdgeCells : GridRemoveSchool(c)

SpecEdge == InitEdge /\ [][NextEdge]_vars

----------------------------------------------------------------------------
(* Notions the properties are stated with *)

\* some tile carries the id in the given field
Referenced(g, field, id) == \E c \in Cells : g[c][field] = id

RegisteredIds(ms) ==
    {m.id : m \in AllMunicipalities(ms)} \cup {a.id : a \in AllAreas(ms)}
        \cup {u.id : u \in AllUnits(ms)}

\* the field of a tile an entity id of that length is stored in
FieldOf(id) == CASE Len(id) = 1 -> "municipalityId" [] Len(id) = 2 -> "areaId" [] OTHER -> "unitId"

SchoolFootprint(s) == Footprint(s.position[1], s.position[2], s.size)

\* the schools of the registry whose footprint covers the cell
Covering(ss, c) == {i \in 1 .. Len(ss) : c \in SchoolFootprint(ss[i])}

SchoolTiles(g) == {c \in Cells : g[c].hasSchool}

\* a placement of the footprint at the corner that contains the clicked cell, lies in
\* the grid, is free of schools and stays inside the unit of the clicked cell
ValidPlacement(g, click, corner, size) ==
    /\ click \in Cells
    /\ g[click].unitId # NoId
    /\ corner[1] <= click[1] /\ click[1] < corner[1] + size.width
    /\ corner[2] <= click[2] /\ click[2] < corner[2] + size.height
    /\ \A c \in Footprint(corner[1], corner[2], size) :
          c \in Cells /\ ~g[c].hasSchool /\ g[c].unitId = g[click].unitId

\* the corners whose footprint contains the clicked cell
CornersAround(click, size) ==
    (click[1] - size.width + 1 .. click[1]) \X (click[2] - size.height + 1 .. click[2])

ValidCorners(g, click, size) == {q \in CornersAround(click, size) : ValidPlacement(g, click, q, size)}

Fits(g, click, type) ==
    \E q \in CornersAround(click, SCHOOL_TYPES[type].size) :
        ValidPlacement(g, click, q, SCHOOL_TYPES[type].size)

\* the school a call has just registered
Placed(ss, id) == ss[schoolIndex(ss, id)]

\* position in the enumeration (x-offset outer, y-offset inner) of the placement at a corner
EnumerationIndex(click, corner, size) ==
    (click[1] - corner[1]) * size.height + (click[2] - corner[2])

----------------------------------------------------------------------------
(* Properties *)

\* C1: after any sequence of strokes in the paint modes, on every tile a non-empty
\* unitId implies a non-empty areaId and a non-empty areaId implies a non-empty
\* municipalityId
C1_HierarchyInvariant ==
    \A c \in Cells :
        /\ grid[c].unitId # NoId => grid[c].areaId # NoId
        /\ grid[c].areaId # NoId => grid[c].municipalityId # NoId

\* a CLEAR paint has just acted while another tile holds all three ids
C1_Witness ==
    /\ last.op = "paint" /\ paintMode = "clear"
    /\ last.pos \in Cells
    /\ grid[last.pos] = EmptyTile
    /\ \E c \in Cells : grid[c].unitId # NoId

\* C2: a CLEAR paint deletes an entity from the registry only when no tile references
\* its id after the tile has been reset, and deletes each entity of the erased tile
\* that no tile references any more
C2_ClearDeletesOnlyUnreferenced ==
    [][(paintMode = "clear" /\ last'.op = "paint" /\ last'.pos \in Cells) =>
          /\ \A id \in RegisteredIds(municipalities) \ RegisteredIds(municipalities') :
                ~Referenced(grid', FieldOf(id), id)
          /\ \A id \in RegisteredIds(municipalities) :
                (id \in {grid[last'.pos].municipalityId, grid[last'.pos].areaId,
                         grid[last'.pos].unitId}
                    /\ ~Referenced(grid', FieldOf(id), id))
                => id \notin RegisteredIds(municipalities')]_vars

\* C3: all tiles under the footprint of a registered school carry one and the same
\* non-empty unitId
C3_SchoolWithinOneUnit ==
    \A i \in 1 .. Len(schools) :
        /\ SchoolFootprint(schools[i]) \subseteq Cells
        /\ \E u \in {grid[schools[i].position].unitId} :
              u # NoId /\ \A c \in SchoolFootprint(schools[i]) : grid[c].unitId = u

\* a stroke in a boundary mode has just painted a tile that a registered school covers
C3_Witness ==
    /\ last.op = "paint" /\ paintMode \in {"municipality", "area", "unit"}
    /\ Covering(schools, last.pos) # {}

\* C4: a tile has hasSchool = TRUE exactly when it lies in the footprint of exactly one
\* registered school, and no tile lies in two footprints
C4_HasSchoolIffCovered ==
    \A c \in Cells :
        /\ grid[c].hasSchool <=> Cardinality(Covering(schools, c)) = 1
        /\ Cardinality(Covering(schools, c)) <= 1

\* two schools were placed, one of them has just been removed and the other remains
C4_Witness ==
    /\ last.op = "removeSchool" /\ last.ret = 1
    /\ Len(schools) = 1
    /\ schoolCounter = 2

\* C5: when placeSchoolAuto(x, y) returns a school, its footprint contains the clicked
\* tile, lies in the grid, covers only tiles that had no school before the call, and
\* every covered tile has the unitId of the clicked tile
C5_AutoPlacementIsValid ==
    [][(last'.op = "placeSchoolAuto" /\ last'.ret # 0) =>
          \E s \in {Placed(schools', last'.ret)} :
              /\ last'.pos \in SchoolFootprint(s)
              /\ SchoolFootprint(s) \subseteq Cells
              /\ \A c \in SchoolFootprint(s) :
                    ~grid[c].hasSchool /\ grid[c].unitId = grid[last'.pos].unitId]_vars

\* placeSchoolAuto has just returned a school whose corner is not the clicked tile
C5_Witness ==
    /\ last.op = "placeSchoolAuto" /\ last.ret # 0
    /\ Placed(schools, last.ret).position # last.pos

\* C6: placeSchoolAuto places HIGH when a valid HIGH placement containing the clicked
\* tile exists, otherwise MIDDLE when a valid MIDDLE placement exists, otherwise
\* ELEMENTARY when a valid ELEMENTARY placement exists
C6_LargestTypeFirst ==
    [][last'.op = "placeSchoolAuto" =>
          \E largest \in {IF Fits(grid, last'.pos, "HIGH") THEN "HIGH"
                          ELSE IF Fits(grid, last'.pos, "MIDDLE") THEN "MIDDLE"
                          ELSE IF Fits(grid, last'.pos, "ELEMENTARY") THEN "ELEMENTARY"
                          ELSE "NONE"} :
              /\ largest # "NONE" => last'.ret # 0
              /\ last'.ret # 0 => Placed(schools', last'.ret).type = largest]_vars

\* placeSchoolAuto has just fallen back to MIDDLE: the unit is too small for HIGH
C6_Witness ==
    /\ last.op = "placeSchoolAuto" /\ last.ret # 0
    /\ Placed(schools, last.ret).type = "MIDDLE"

\* C7: for each footprint size, the corner the search returns is a valid placement, no
\* valid placement has the clicked tile closer to the footprint centre, and among the
\* equally close ones it comes first in the enumeration order; the school placed by
\* the call stands at that corner
C7_ClosestToCentreFirstInOrder ==
    [][last'.op = "placeSchoolAuto" =>
          /\ \A t \in SchoolTypeNames :
                \A r \in {findBestSchoolPosition(grid, last'.pos[1], last'.pos[2], SCHOOL_TYPES[t].size)} :
                    /\ r = <<>> <=> ~Fits(grid, last'.pos, t)
                    /\ r # <<>> =>
                          /\ ValidPlacement(grid, last'.pos, r[1], SCHOOL_TYPES[t].size)
                          /\ \A q \in ValidCorners(grid, last'.pos, SCHOOL_TYPES[t].size) :
                                \/ distanceToCenter2(last'.pos[1], last'.pos[2], r[1], SCHOOL_TYPES[t].size)
                                     < distanceToCenter2(last'.pos[1], last'.pos[2], q, SCHOOL_TYPES[t].size)
                                \/ /\ distanceToCenter2(last'.pos[1], last'.pos[2], r[1], SCHOOL_TYPES[t].size)
                                        = distanceToCenter2(last'.pos[1], last'.pos[2], q, SCHOOL_TYPES[t].size)
                                   /\ EnumerationIndex(last'.pos, r[1], SCHOOL_TYPES[t].size)
                                        <= EnumerationIndex(last'.pos, q, SCHOOL_TYPES[t].size)
          /\ last'.ret # 0 =>
                \E s \in {Placed(schools', last'.ret)} :
                    <<s.position>> = findBestSchoolPosition(grid, last'.pos[1], last'.pos[2], s.size)]_vars

\* placeSchoolAuto has just placed an ELEMENTARY school at the first corner of the
\* enumeration (the clicked tile) although the second corner, one tile up, was a valid
\* placement too and, for a 2x2 footprint, equally close to the centre
C7_Witness ==
    /\ last.op = "placeSchoolAuto" /\ last.ret # 0
    /\ \E s \in {Placed(schools, last.ret)} :
          /\ s.type = "ELEMENTARY"
          /\ s.position = last.pos
          /\ \A c \in Footprint(last.pos[1], last.pos[2] - 1, s.size) \ SchoolFootprint(s) :
                c \in Cells /\ ~grid[c].hasSchool /\ grid[c].unitId = grid[last.pos].unitId

\* C8: when no footprint size has a valid placement containing the clicked tile,
\* placeSchoolAuto returns null, registers no school, leaves the school counter and
\* hasSchool of every tile unchanged
C8_NoFitNoEffect ==
    [][(last'.op = "placeSchoolAuto" /\ \A t \in SchoolTypeNames : ~Fits(grid, last'.pos, t)) =>
          /\ last'.ret = 0
          /\ schools' = schools
          /\ schoolCounter' = schoolCounter
          /\ \A c \in Cells : grid'[c].hasSchool = grid[c].hasSchool]_vars

\* placeSchoolAuto has just returned null for a clicked tile that lies in a unit and is
\* free of schools, while a school stands in that unit
C8_Witness ==
    /\ last.op = "placeSchoolAuto" /\ last.ret = 0
    /\ last.pos \in Cells
    /\ grid[last.pos].unitId # NoId /\ ~grid[last.pos].hasSchool
    /\ \E i \in 1 .. Len(schools) : grid[schools[i].position].unitId = grid[last.pos].unitId

\* the scenario of C9: tile (5,5), and it alone, is painted municipality, area and unit,
\* and a stroke in SCHOOL mode has just clicked it
C9_Scenario ==
    /\ last.op = "paint" /\ last.pos = <<5, 5>> /\ paintMode = "school"
    /\ grid[<<5, 5>>].unitId # NoId
    /\ \A c \in Cells \ {<<5, 5>>} : grid[c].municipalityId = NoId

\* C9 as stated: in the scenario the ELEMENTARY footprint is placed and exactly 4 tiles
\* have hasSchool = TRUE
C9_Original ==
    C9_Scenario =>
        /\ Cardinality(SchoolTiles(grid)) = 4
        /\ Len(schools) = 1 /\ schools[1].type = "ELEMENTARY"

\* C9 amended: in the scenario no footprint fits into the one-tile unit, so the call
\* returns null, no school is registered and no tile has hasSchool = TRUE
C9_Amended ==
    C9_Scenario =>
        /\ last.ret = 0
        /\ schools = <<>>
        /\ SchoolTiles(grid) = {}

\* the scenario has been played and the call returned null
C9_Witness == C9_Scenario /\ last.ret = 0 /\ schoolCounter = 0

\* C10: every registered school has currentStudents <= capacity
C10_StudentsWithinCapacity ==
    \A i \in 1 .. Len(schools) : schools[i].currentStudents <= schools[i].capacity

\* the registered schools that carry the id
WithId(ss, id) == {i \in 1 .. Len(ss) : ss[i].id = id}

\* C11: addStudents(id, n) returns false and leaves currentStudents of every school
\* unchanged when no school has the id or currentStudents + n > capacity; otherwise it
\* returns true, adds exactly n to that school's currentStudents and leaves every other
\* school unchanged
C11_AddStudentsContract ==
    [][last'.op = "addStudents" =>
          \E id \in {last'.pos[1]}, n \in {last'.pos[2]} :
              IF \/ WithId(schools, id) = {}
                 \/ \E i \in WithId(schools, id) : schools[i].currentStudents + n > schools[i].capacity
              THEN /\ last'.ret = 0
                   /\ Len(schools') = Len(schools)
                   /\ \A j \in 1 .. Len(schools) :
                         schools'[j].currentStudents = schools[j].currentStudents
              ELSE /\ last'.ret = 1
                   /\ Len(schools') = Len(schools)
                   /\ \A j \in 1 .. Len(schools) :
                         IF schools[j].id = id
                         THEN schools'[j] = [schools[j] EXCEPT !.currentStudents = @ + n]
                         ELSE schools'[j] = schools[j]]_vars

\* addStudents has just refused a school that is registered and already holds
\* students, while another school is registered too
C11_Witness ==
    /\ last.op = "addStudents" /\ last.ret = 0
    /\ Len(schools) = 2
    /\ \E i \in WithId(schools, last.pos[1]) :
          /\ schools[i].currentStudents > 0
          /\ schools[i].currentStudents + last.pos[2] > schools[i].capacity

\* the active id of the level a boundary mode paints, among the three active ids
ActiveOf(mode, m, a, u) ==
    CASE mode = "municipality" -> m [] mode = "area" -> a [] OTHER -> u

\* the field of a tile a boundary mode writes
LevelField(mode) ==
    CASE mode = "municipality" -> "municipalityId" [] mode = "area" -> "areaId" [] OTHER -> "unitId"

\* C12: during one stroke (pointer down, pointer moves) in MUNICIPALITY, AREA or UNIT
\* mode at most one entity is added to the registry, an entity is added only while no
\* id of the level is active and becomes the active one, every tile the stroke has
\* changed carries the active id of the level, and painting a tile the stroke has
\* already visited changes neither the tiles nor the registry
C12_OneEntityPerStroke ==
    [][(last'.op = "paint" /\ stroke'.tracked) =>
          /\ stroke'.created <= 1
          /\ EntityCount(municipalities') >= EntityCount(municipalities)
          /\ EntityCount(municipalities') > EntityCount(municipalities) =>
                /\ ActiveOf(paintMode, currentMunicipalityId, currentAreaId, currentUnitId) = NoId
                /\ ActiveOf(paintMode, currentMunicipalityId', currentAreaId', currentUnitId')
                      \in RegisteredIds(municipalities') \ RegisteredIds(municipalities)
          /\ \A c \in stroke'.changed :
                /\ ActiveOf(paintMode, currentMunicipalityId', currentAreaId', currentUnitId') # NoId
                /\ grid'[c][LevelField(paintMode)] =
                      ActiveOf(paintMode, currentMunicipalityId', currentAreaId', currentUnitId')
          /\ (stroke.tracked /\ last'.pos \in stroke.visited) =>
                /\ grid' = grid
                /\ municipalities' = municipalities
                /\ counter' = counter]_vars

\* a stroke in UNIT mode has created one unit and has assigned it to two tiles
C12_Witness ==
    /\ last.op = "paint" /\ paintMode = "unit"
    /\ stroke.tracked /\ stroke.created = 1
    /\ Cardinality(stroke.changed) = 2
    /\ \A c \in stroke.changed : grid[c].unitId = currentUnitId

\* C13 as stated: entering MUNICIPALITY, AREA or UNIT mode by setPaintMode leaves the
\* active id of that level empty, whatever mode was active before
C13_Original ==
    [][(last'.op = "setPaintMode" /\ paintMode' \in BoundaryModes) =>
          ActiveOf(paintMode', currentMunicipalityId', currentAreaId', currentUnitId') = NoId]_vars

\* C13 amended: entering MUNICIPALITY, AREA or UNIT mode by setPaintMode from another
\* mode (or from no mode) leaves the active id of that level empty; selecting the mode
\* that is already active keeps its active id
C13_Amended ==
    [][(last'.op = "setPaintMode" /\ paintMode' \in BoundaryModes) =>
          IF paintMode = paintMode'
          THEN ActiveOf(paintMode', currentMunicipalityId', currentAreaId', currentUnitId')
                  = ActiveOf(paintMode', currentMunicipalityId, currentAreaId, currentUnitId)
          ELSE ActiveOf(paintMode', currentMunicipalityId', currentAreaId', currentUnitId') = NoId]_vars

\* AREA mode has just been selected again while an area was active, and the area is
\* still the active one
C13_Witness ==
    /\ last.op = "setPaintMode" /\ paintMode = "area"
    /\ currentAreaId # NoId
    /\ \E c \in Cells : grid[c].areaId = currentAreaId

\* C14 as stated: entering AREA mode keeps the active municipality id, entering UNIT
\* mode keeps the active municipality id and the active area id
C14_Original ==
    [][(last'.op = "setPaintMode" /\ paintMode' \in {"area", "unit"}) =>
          /\ currentMunicipalityId' = currentMunicipalityId
          /\ paintMode' = "unit" => currentAreaId' = currentAreaId]_vars

\* C14 amended: entering AREA mode empties the active municipality id and the active
\* unit id, entering UNIT mode empties the active municipality id and the active area id
C14_Amended ==
    [][(last'.op = "setPaintMode" /\ paintMode' \in {"area", "unit"}) =>
          /\ currentMunicipalityId' = NoId
          /\ paintMode' = "area" => currentUnitId' = NoId
          /\ paintMode' = "unit" => currentAreaId' = NoId]_vars

\* UNIT mode has just been entered after an area was painted: tiles carry an area,
\* and no municipality and no area is active
C14_Witness ==
    /\ last.op = "setPaintMode" /\ paintMode = "unit"
    /\ currentMunicipalityId = NoId /\ currentAreaId = NoId
    /\ \E c \in Cells : grid[c].areaId # NoId
    /\ \A c \in Cells : grid[c].unitId = NoId

\* the hierarchy does not allow painting the tile in the mode
InvalidTransition(mode, tile) ==
    \/ mode = "area" /\ (tile.municipalityId = NoId \/ tile.unitId # NoId)
    \/ mode = "unit" /\ (tile.areaId = NoId \/ tile.unitId # NoId)
    \/ mode = "school" /\ (tile.unitId = NoId \/ tile.hasSchool)

\* the three boundary ids of a tile
BoundaryIds(tile) == <<tile.municipalityId, tile.areaId, tile.unitId>>

\* C15: painting in AREA mode a tile without municipality or with a unit, in UNIT mode
\* a tile without area or with a unit, in SCHOOL mode a tile without unit or with a
\* school changes no tile and adds nothing to the boundary registry and the school
\* registry
C15_InvalidTransitionIsNoOp ==
    [][(last'.op = "paint" /\ last'.pos \in Cells
            /\ InvalidTransition(paintMode, grid[last'.pos])) =>
          /\ grid' = grid
          /\ municipalities' = municipalities /\ counter' = counter
          /\ schools' = schools /\ schoolCounter' = schoolCounter]_vars

\* SCHOOL mode has just painted a tile that a school covers, and no school came of it
C15_Witness ==
    /\ last.op = "paint" /\ paintMode = "school"
    /\ last.pos \in Cells /\ grid[last.pos].hasSchool
    /\ last.ret = 0

\* C17: a CLEAR paint on a tile covered by a school deletes that school from the school
\* registry, sets hasSchool to FALSE on every tile of its footprint, empties the three
\* boundary ids of the painted tile and leaves the boundary ids of all other tiles as
\* they were
C17_ClearRemovesWholeSchool ==
    [][(last'.op = "paint" /\ paintMode = "clear" /\ last'.pos \in Cells
            /\ Covering(schools, last'.pos) # {}) =>
          \E i \in Covering(schools, last'.pos) :
              /\ Len(schools') = Len(schools) - 1
              /\ \A j \in 1 .. Len(schools') :
                    schools'[j] = IF j < i THEN schools[j] ELSE schools[j + 1]
              /\ \A c \in SchoolFootprint(schools[i]) : ~grid'[c].hasSchool
              /\ BoundaryIds(grid'[last'.pos]) = <<NoId, NoId, NoId>>
              /\ \A c \in Cells \ {last'.pos} : BoundaryIds(grid'[c]) = BoundaryIds(grid[c])]_vars

\* a CLEAR paint has just emptied a tile whose 2x2 neighbourhood still carries a unit
\* and no school, and a school that was placed is gone from the registry
C17_Witness ==
    /\ last.op = "paint" /\ paintMode = "clear"
    /\ last.pos \in Cells /\ grid[last.pos] = EmptyTile
    /\ Len(schools) < schoolCounter
    /\ \E q \in Cells :
          /\ last.pos \in Footprint(q[1], q[2], SCHOOL_TYPES.ELEMENTARY.size)
          /\ \A c \in Footprint(q[1], q[2], SCHOOL_TYPES.ELEMENTARY.size) \ {last.pos} :
                c \in Cells /\ grid[c].unitId # NoId /\ ~grid[c].hasSchool

\* C18: a CLEAR paint of the tile the previous CLEAR paint erased changes neither the
\* tiles nor the boundary registry nor the school registry
C18_ClearIsIdempotent ==
    [][(last.op = "paint" /\ paintMode = "clear"
            /\ last'.op = "paint" /\ last'.pos = last.pos /\ last.pos \in Cells) =>
          /\ grid' = grid
          /\ municipalities' = municipalities /\ counter' = counter
          /\ schools' = schools /\ schoolCounter' = schoolCounter]_vars

\* a CLEAR paint has erased a tile, its school and the registry entry of its
\* municipality, while the other school still stands
C18_Witness ==
    /\ last.op = "paint" /\ paintMode = "clear"
    /\ last.pos \in Cells /\ grid[last.pos] = EmptyTile
    /\ schoolCounter = 2 /\ Len(schools) = 1
    /\ municipalities = <<>>

\* C16: in MUNICIPALITY mode, painting a tile without municipality gives it the active
\* municipality id, after creating exactly one new municipality when none is active,
\* and leaves its areaId and unitId empty; painting a tile that has a municipality
\* changes neither the tiles nor the registry
C16_PaintMunicipality ==
    [][(last'.op = "paint" /\ paintMode = "municipality" /\ last'.pos \in Cells) =>
          IF grid[last'.pos].municipalityId = NoId
          THEN /\ currentMunicipalityId' # NoId
               /\ currentMunicipalityId # NoId =>
                     /\ currentMunicipalityId' = currentMunicipalityId
                     /\ municipalities' = municipalities /\ counter' = counter
               /\ currentMunicipalityId = NoId =>
                     /\ Len(municipalities') = Len(municipalities) + 1
                     /\ SubSeq(municipalities', 1, Len(municipalities)) = municipalities
                     /\ municipalities'[Len(municipalities')] =
                           [id |-> currentMunicipalityId', areas |-> <<>>]
                     /\ currentMunicipalityId' \notin RegisteredIds(municipalities)
               /\ grid'[last'.pos] = [hasSchool |-> grid[last'.pos].hasSchool,
                                      municipalityId |-> currentMunicipalityId',
                                      areaId |-> NoId, unitId |-> NoId]
               /\ \A c \in Cells \ {last'.pos} : grid'[c] = grid[c]
          ELSE /\ grid' = grid
               /\ municipalities' = municipalities /\ counter' = counter]_vars

\* a stroke in MUNICIPALITY mode has created one municipality and given it to two tiles
C16_Witness ==
    /\ last.op = "paint" /\ paintMode = "municipality"
    /\ Len(municipalities) = 1
    /\ municipalities[1].id = currentMunicipalityId
    /\ Cardinality({c \in Cells : grid[c].municipalityId = currentMunicipalityId}) = 2

\* the tiles, the boundary registry and the school registry are left as they were
NothingPainted ==
    /\ grid' = grid
    /\ municipalities' = municipalities /\ counter' = counter
    /\ schools' = schools /\ schoolCounter' = schoolCounter

\* C19: painting is done only by a pointer down, or by a pointer move while a stroke is
\* in progress, with a paint mode selected; a pointer event that finds no stroke in
\* progress and starts none changes no tile and no registry; a pointer up ends the
\* stroke and paints nothing
C19_PointerProtocol ==
    [][/\ last'.op = "paint" => paintMode # "null" /\ isSelecting'
       /\ (last'.op \in {"paint", "pointerdown", "pointermove", "pointerup"}
              /\ ~isSelecting /\ ~isSelecting') => NothingPainted
       /\ last'.op = "pointerup" => ~isSelecting' /\ NothingPainted
       /\ ~NothingPainted => last'.op \in {"paint", "cleanSlate"}]_vars

\* with a paint mode selected and painted tiles on the grid, a pointer move has just
\* arrived while no stroke was in progress
C19_Witness ==
    /\ last.op = "pointermove"
    /\ paintMode = "municipality" /\ ~isSelecting
    /\ \E c \in Cells : grid[c].municipalityId # NoId
    /\ \E c \in PointerCells \cap Cells : grid[c].municipalityId = NoId

\* C20: every municipality, area and unit of the registry is referenced by at least
\* one tile
C20_EveryEntityReferenced ==
    \A id \in RegisteredIds(municipalities) : Referenced(grid, FieldOf(id), id)

\* the zoom factors 0.5, 1.0 and 2.0
NamedZooms == {ZoomUnit \div 2, ZoomUnit, 2 * ZoomUnit}

\* C21: at zoom 0.5, 1.0 and 2.0 and at any camera offset, every cell of the grid is
\* the cell screenToGrid returns for the screen position gridToScreen gives it
C21_RoundTrip ==
    zoom \in NamedZooms =>
        \A c \in Cells :
            screenToGrid(View, gridToScreen(View, c[1], c[2])[1],
                               gridToScreen(View, c[1], c[2])[2]) = c

\* a wheel event at zoom 0.5 has just panned the camera over a centred grid
C21_Witness ==
    /\ last.op = "wheel"
    /\ zoom = ZoomUnit \div 2
    /\ gridSize = GRID_SIZE
    /\ cameraOffsetX # 0 /\ cameraOffsetY # 0

\* C24: the zoom factor always lies between 0.5 and 2.0, and a zoom operation that
\* requests a value outside that range leaves the nearest bound, one that requests a
\* value inside it leaves that value
C24_ZoomClamped ==
    /\ ZoomUnit \div 2 <= zoom /\ zoom <= 2 * ZoomUnit
    /\ [][/\ ZoomUnit \div 2 <= zoom' /\ zoom' <= 2 * ZoomUnit
          /\ last'.op \in ZoomOps =>
                zoom' = IF last'.ret < ZoomUnit \div 2 THEN ZoomUnit \div 2
                        ELSE IF last'.ret > 2 * ZoomUnit THEN 2 * ZoomUnit
                        ELSE last'.ret]_vars

\* a pinch at zoom 0.5 has just requested 0.45
C24_Witness ==
    /\ last.op = "pinch"
    /\ last.ret < ZoomUnit \div 2
    /\ zoom = ZoomUnit \div 2

\* the pan bound of a rendering service in fifths of a pixel:
\* max(300, (gridSize * tile size * zoom - canvas size) / 2 + 300) on each axis
WithinPanBound(v) ==
    /\ Abs(v.cameraOffsetX) <=
          Max(300 * PixelUnit,
              ((v.gridSize * TILE_WIDTH * v.zoom * PixelUnit) \div ZoomUnit
                  - v.canvasWidth * PixelUnit) \div 2 + 300 * PixelUnit)
    /\ Abs(v.cameraOffsetY) <=
          Max(300 * PixelUnit,
              ((v.gridSize * TILE_HEIGHT * v.zoom * PixelUnit) \div ZoomUnit
                  - v.canvasHeight * PixelUnit) \div 2 + 300 * PixelUnit)

\* C25: once centerGrid has recorded the canvas and the grid size, the camera offset is
\* within the pan bound of the current zoom and canvas after every pan, every zoom
\* operation and every centerGrid call that records another canvas size
C25_PanWithinBound ==
    [][(/\ gridSize # 0
        /\ \/ last'.op \in ZoomOps \cup {"updatePan"}
           \/ last'.op = "centerGrid"
                 /\ <<canvasWidth', canvasHeight'>> # <<canvasWidth, canvasHeight>>)
          => WithinPanBound(View')]_vars

\* the points of the quarter lattice of a tile's bounding box that lie strictly inside
\* the diamond drawTile fills for the cell
InsideDrawnTile(v, c) ==
    LET d == drawTile(v, c[1], c[2])
        halfW == d.right[1] - d.top[1]
        halfH == d.right[2] - d.top[2]
    IN  {p \in {<<d.top[1] + (i * halfW) \div 4, d.top[2] + (j * halfH) \div 4>> :
                    <<i, j>> \in (-3 .. 3) \X (1 .. 7)} :
            Abs(p[1] - d.top[1]) * halfH + Abs(p[2] - d.right[2]) * halfW < halfW * halfH}

\* C29: at any zoom and camera offset, screenToGrid maps every screen point strictly
\* inside the diamond drawn for a tile to that tile
C29_DrawnTileIsHitTile ==
    \A c \in Cells : \A p \in InsideDrawnTile(View, c) : screenToGrid(View, p[1], p[2]) = c

\* C22: a loadGameData or importGameData call that returns false leaves the grid, the
\* boundary registry, the school registry and their counters as they were
C22_FailedLoadChangesNothing ==
    [][(last'.op \in {"loadGame", "importGameData"} /\ last'.ret = 0) => NothingPainted]_vars

\* C26: after Clean Slate every tile is empty and without school, the boundary registry
\* and the school registry are empty, and both counters have their initial values
C26_CleanSlateResetsAll ==
    [][last'.op = "cleanSlate" =>
          /\ \A c \in Cells : grid'[c] = [hasSchool |-> FALSE, municipalityId |-> NoId,
                                          areaId |-> NoId, unitId |-> NoId]
          /\ municipalities' = <<>>
          /\ schools' = <<>>
          /\ counter' = 1
          /\ schoolCounter' = 0]_vars

\* Clean Slate has just run on a game that had two schools and a municipality
C26_Witness ==
    /\ last.op = "cleanSlate"
    /\ last.ret = 3
    /\ grid = initializeGrid

\* a text as saveGameData writes it
WrittenBySave(data) ==
    /\ data.parses /\ validateSaveData(data)
    /\ \A i \in 1 .. Len(data.schools[1]) : data.schools[1][i] # <<>>

CoordinateOps ==
    {"paint", "placeSchoolAuto", "removeSchool", "getTile", "setTileSchool",
     "gridPlaceSchool", "gridRemoveSchool"}

\* C23: an operation addressed to a coordinate outside the grid changes no tile, no
\* boundary registry entry and no school and returns null or false; a paint there
\* leaves the active ids as they are
C23_OffGridIsIgnored ==
    [][(last'.op \in CoordinateOps /\ last'.pos \notin Cells) =>
          /\ NothingPainted
          /\ last'.ret = 0
          /\ <<currentMunicipalityId', currentAreaId', currentUnitId'>>
                = <<currentMunicipalityId, currentAreaId, currentUnitId>>]_vars

\* a CLEAR paint has just been addressed to a position beyond the edge while a school
\* stands on the corner tile next to it
C23_Witness ==
    /\ last.op = "paint" /\ paintMode = "clear"
    /\ last.pos \notin Cells
    /\ Len(schools) = 1
    /\ grid[<<GRID_SIZE - 1, GRID_SIZE - 1>>].hasSchool

\* the ids of a tile name registered entities whose parents are the tile's other ids
TileRefersToRegistry(t, ms) ==
    /\ t.municipalityId # NoId => \E m \in AllMunicipalities(ms) : m.id = t.municipalityId
    /\ t.areaId # NoId =>
          \E a \in AllAreas(ms) : a.id = t.areaId /\ a.municipalityId = t.municipalityId
    /\ t.unitId # NoId =>
          \E u \in AllUnits(ms) : u.id = t.unitId /\ u.areaId = t.areaId

\* C27: after paint strokes, mode switches and Clean Slate every non-empty id of a
\* tile names an entity of the registry, the area of the tile belongs to the tile's
\* municipality and the unit of the tile belongs to the tile's area
C27_TileIdsRegistered ==
    \A c \in Cells : TileRefersToRegistry(grid[c], municipalities)

\* where the areas and the units of the registry are: <<i, j>> is area j of
\* municipality i, <<i, j, k>> is unit k of that area
AreaPlaces(ms) == UNION {{<<i, j>> : j \in 1 .. Len(ms[i].areas)} : i \in 1 .. Len(ms)}

UnitPlaces(ms) ==
    UNION {{<<p[1], p[2], k>> : k \in 1 .. Len(ms[p[1]].areas[p[2]].units)} : p \in AreaPlaces(ms)}

====
